---- MODULE Spec2Model ----
(***************************************************************************)
(* ChatArchive import normalisation engine: the four source adapters of    *)
(* backend/app/importers (chatgpt.py, claude.py, gemini.py, copilot.py),   *)
(* and the import, delete and settings endpoints of backend/app/main.py.   *)
(*                                                                         *)
(* Text is a sequence of one-character strings, so that str.strip and      *)
(* "\n".join are computed, not assumed.  A JSON value is a record with a   *)
(* kind tag `k`; a JSON object is a record of the keys the code reads.     *)
(***************************************************************************)
EXTENDS Integers, Sequences, FiniteSets, TLC

VARIABLES
    adapter,     \* which parse_<source>_export is being called
    payload,     \* the decoded JSON value handed to the adapter
    pc,          \* position of the call: "start", "items", "walk", "done", "error"
    error,       \* the exception that ended the call, or "none"
    parsed,      \* the adapter's `parsed` list (returned when pc = "done")
    idx,         \* ChatGPT: 1-based position of the conversation item in progress
    root,        \* ChatGPT walker: root_id of the mapping in progress
    stack,       \* ChatGPT walker: the active traverse() calls, innermost last
    order,       \* ChatGPT walker: the running order counter
    messages,    \* ChatGPT walker: the `messages` list being built
    phase,       \* import request in progress: "idle", "read", "parse", "persist", "refresh"
    raw,         \* what json.loads makes of the uploaded bytes
    records,     \* the import request's `records`: ids of the conversations it added
    dbHistory,   \* table import_history, row n at position n
    dbConversations, \* table conversations
    dbMessages,  \* table messages
    deleter,     \* the DELETE /conversations/{id} requests
    dbSettings,  \* table import_settings: keep_separate of each row
    client       \* the GET and PUT /settings/import requests

importVars == <<phase, raw, records, dbHistory, dbConversations, dbMessages, deleter>>

settingsVars == <<dbSettings, client>>

serverVars == <<importVars, settingsVars>>

parserVars == <<adapter, payload, pc, error, parsed, idx, root, stack, order, messages>>

vars == <<parserVars, serverVars>>

walkVars == <<root, stack, order, messages>>

(***************************************************************************)
(* Bounds of the model.                                                    *)
(***************************************************************************)
\* Child references in one mapping, all nodes together.
MaxEdges == 2
\* Depth of Python's call stack left to traverse(); sys.getrecursionlimit()
\* is finite in every build, and any finite value above the number of
\* nodes behaves alike.
RecursionLimit == 5
\* Messages in one payload of an array-based adapter, all items together.
MaxMsgs == 2
\* Conversation items in one payload.
MaxItems == 2
\* Import requests, one after the other.
MaxImports == 2
\* DELETE requests, each in a thread of its own.
MaxDeletes == 1
\* Settings requests, each in a thread of its own.
MaxClients == 3

\* Node ids of a ChatGPT mapping are opaque strings; "" is the one id that
\* Python treats as false.
NodeIds == {"", "a", "b"}

(***************************************************************************)
(* Text.                                                                   *)
(***************************************************************************)
NL == "\n"

IsSpace(c) == c \in {" ", NL}

\* str.strip(): drops leading and trailing whitespace.
Strip(s) ==
    LET keep == {i \in 1..Len(s) : ~IsSpace(s[i])}
        lo == CHOOSE i \in keep : \A j \in keep : i <= j
        hi == CHOOSE i \in keep : \A j \in keep : j <= i
    IN  IF keep = {} THEN <<>> ELSE SubSeq(s, lo, hi)

RECURSIVE JoinNL(_)
\* "\n".join(parts)
JoinNL(parts) ==
    IF parts = <<>> THEN <<>>
    ELSE IF Len(parts) = 1 THEN parts[1]
    ELSE parts[1] \o <<NL>> \o JoinNL(Tail(parts))

RECURSIVE Concat(_)
Concat(seqs) == IF seqs = <<>> THEN <<>> ELSE seqs[1] \o Concat(Tail(seqs))

Last(s) == s[Len(s)]

Front(s) == SubSeq(s, 1, Len(s) - 1)

\* The outcome of a call: a value, or the exception it raises.
Ok(x) == [err |-> "none", v |-> x]

Raise(e) == [err |-> e, v |-> <<>>]

\* One turn of a loop and the turns after it: the first exception ends the
\* loop, otherwise what the turns append is put together.
Then(r, rest) ==
    IF r.err # "none" THEN r
    ELSE IF rest.err # "none" THEN rest
    ELSE Ok(r.v \o rest.v)

\* `try: return r` and, on its exception, the alternative.
OrElse(r, alt) == IF r.err = "none" THEN r ELSE alt

(***************************************************************************)
(* Scalars of a payload: [k, s] with k "absent", "null", "str" or "num";    *)
(* k is "obj" for a non-empty JSON object where a scalar is expected.      *)
(***************************************************************************)
A0 == [k |-> "absent", s |-> <<>>]

N0 == [k |-> "null", s |-> <<>>]

\* dict.get(key): None for a key that is absent.
Get(v) == IF v.k = "absent" THEN N0 ELSE v

S0(s) == [k |-> "str", s |-> s]

I0(s) == [k |-> "num", s |-> s]

Obj == [k |-> "obj", s |-> <<>>]

(***************************************************************************)
(* Timestamps.  A timestamp value of the payload is [k, neg, limbs, toks]: *)
(* k is "absent", "null", "num", "str" or "other" (a list or an object).   *)
(* A number is its sign and its digits in groups of three (1700000000 is   *)
(* <<1, 700, 0, 0>>, zero is <<>>), so that no magnitude is cut off.  A    *)
(* string is the sequence of its lexical parts: a date, "T" or " ", a      *)
(* time, a fraction, "Z", a numeric offset, or other text.  A datetime is  *)
(* [k, neg, sec, ms, text, tz]: made from epoch seconds (sec, ms), or from *)
(* a text (date, time, fraction); tz is "" for a naive datetime.           *)
(***************************************************************************)
TsVal(k, neg, limbs, toks) == [k |-> k, neg |-> neg, limbs |-> limbs, toks |-> toks]

NoTs == TsVal("absent", FALSE, <<>>, <<>>)

NullTs == TsVal("null", FALSE, <<>>, <<>>)

NumTs(limbs) == TsVal("num", FALSE, limbs, <<>>)

NegTs(limbs) == TsVal("num", TRUE, limbs, <<>>)

StrTs(toks) == TsVal("str", FALSE, <<>>, toks)

OtherTs == TsVal("other", FALSE, <<>>, <<>>)

\* None, as the result of a timestamp function.
NoInstant == [k |-> "none", neg |-> FALSE, sec |-> <<>>, ms |-> 0, text |-> <<>>, tz |-> ""]

FromEpoch(neg, sec, ms) ==
    [k |-> "epoch", neg |-> neg, sec |-> sec, ms |-> ms, text |-> <<>>, tz |-> ""]

FromText(date, time, frac, tz) ==
    [k |-> "text", neg |-> FALSE, sec |-> <<>>, ms |-> 0, text |-> <<date, time, frac>>,
     tz |-> tz]

\* a < b for two magnitudes.
LimbLess(a, b) ==
    \/ Len(a) < Len(b)
    \/ /\ Len(a) = Len(b)
       /\ \E i \in 1..Len(a) : a[i] < b[i] /\ \A j \in 1..(i - 1) : a[j] = b[j]

\* 1e12, the threshold of the millisecond heuristic.
E12 == <<1, 0, 0, 0, 0>>

\* The seconds datetime.fromtimestamp accepts in the zone UTC: from
\* -62135510400 (0001-01-02) to 253402300799 (9999-12-31T23:59:59); the
\* range of time_t: 2^63 - 1.
MinSeconds == <<62, 135, 510, 400>>

MaxSeconds == <<253, 402, 300, 799>>

TimeTMax == <<9, 223, 372, 36, 854, 775, 807>>

\* datetime.fromtimestamp(x) for x = sec + ms / 1000.
fromtimestamp(neg, sec, ms) ==
    IF LimbLess(TimeTMax, sec) THEN Raise("OverflowError")
    ELSE IF LimbLess(IF neg THEN MinSeconds ELSE MaxSeconds, sec) THEN Raise("ValueError")
    ELSE Ok(FromEpoch(neg, sec, ms))

\* `except (ValueError, OSError, TypeError): pass`, then `return None`.
Caught(r) ==
    IF r.err \in {"ValueError", "OSError", "TypeError"} THEN Ok(NoInstant) ELSE r

Offsets == {"+00:00", "+05:00", "-08:00"}

TokClass(tok) ==
    CASE tok = "2024-01-01" -> "date"
      [] tok = "00:00:00" -> "time"
      [] tok = ".500" -> "frac"
      [] tok \in Offsets -> "offset"
      [] OTHER -> tok

\* What fromisoformat reads in an offset that follows the date at once: the
\* sign is the separator and the digits are the time.
OffsetAsTime(tok) ==
    CASE tok = "+05:00" -> "05:00:00"
      [] tok = "-08:00" -> "08:00:00"
      [] OTHER -> "00:00:00"

Classes(toks) == [i \in 1..Len(toks) |-> TokClass(toks[i])]

\* datetime.fromisoformat(s)
fromisoformat(toks) ==
    LET c == Classes(toks)
        aware == Len(c) > 3 /\ c[Len(c)] = "offset"
        core == IF aware THEN Front(c) ELSE c
        tz == IF aware THEN toks[Len(toks)] ELSE ""
    IN  IF core = <<"date">> THEN Ok(FromText(toks[1], "00:00:00", "", ""))
        ELSE IF core = <<"date", "offset">>
        THEN Ok(FromText(toks[1], OffsetAsTime(toks[2]), "", ""))
        ELSE IF core \in {<<"date", "T", "time">>, <<"date", " ", "time">>}
        THEN Ok(FromText(toks[1], toks[3], "", tz))
        ELSE IF core \in {<<"date", "T", "time", "frac">>, <<"date", " ", "time", "frac">>}
        THEN Ok(FromText(toks[1], toks[3], toks[4], tz))
        ELSE Raise("ValueError")

\* The formats handed to strptime.
FmtTFrac == <<"date", "T", "time", "frac">>

FmtT == <<"date", "T", "time">>

FmtSpace == <<"date", " ", "time">>

\* datetime.strptime(s, fmt)
strptime(toks, fmt) ==
    IF Classes(toks) # fmt THEN Raise("ValueError")
    ELSE Ok(FromText(toks[1], toks[3], IF Len(toks) = 4 THEN toks[4] ELSE "", ""))

\* s.replace("Z", "+00:00")
ReplaceZ(toks) == [i \in 1..Len(toks) |-> IF toks[i] = "Z" THEN "+00:00" ELSE toks[i]]

\* s.replace("+00:00", "")
RemoveUtc(toks) == SelectSeq(toks, LAMBDA t : t # "+00:00")

\* s.split("+")[0] and s.split("Z")[0]
RECURSIVE Before(_, _)
Before(toks, stops) ==
    IF toks = <<>> \/ toks[1] \in stops THEN <<>>
    ELSE <<toks[1]>> \o Before(Tail(toks), stops)

\* `for fmt in [...]: try: return strptime(s, fmt) except ValueError: continue`
RECURSIVE TryFormats(_, _)
TryFormats(toks, fmts) ==
    IF fmts = <<>> THEN Ok(NoInstant)
    ELSE OrElse(strptime(toks, fmts[1]), TryFormats(toks, Tail(fmts)))

\* `if not timestamp`
TsFalsy(t) ==
    \/ t.k \in {"absent", "null"}
    \/ t.k = "num" /\ t.limbs = <<>>
    \/ t.k = "str" /\ t.toks = <<>>

\* claude.py parse_timestamp
claude_parse_timestamp(t) ==
    IF TsFalsy(t) THEN Ok(NoInstant)
    ELSE IF t.k = "str" THEN Caught(fromisoformat(RemoveUtc(ReplaceZ(t.toks))))
    ELSE IF t.k = "num" THEN Caught(fromtimestamp(t.neg, t.limbs, 0))
    ELSE Ok(NoInstant)

\* Lines 156-160 of gemini.py and 217-220 of copilot.py.
MillisOrSeconds(t) ==
    IF ~t.neg /\ LimbLess(E12, t.limbs)
    THEN fromtimestamp(FALSE, Front(t.limbs), Last(t.limbs))
    ELSE fromtimestamp(t.neg, t.limbs, 0)

\* gemini.py parse_timestamp
gemini_parse_timestamp(t) ==
    IF TsFalsy(t) THEN Ok(NoInstant)
    ELSE IF t.k = "str"
    THEN TryFormats(Before(ReplaceZ(t.toks), {"+00:00", "+05:00"}), <<FmtTFrac, FmtT, FmtSpace>>)
    ELSE IF t.k = "num" THEN Caught(MillisOrSeconds(t))
    ELSE Ok(NoInstant)

\* copilot.py parse_timestamp
copilot_parse_timestamp(t) ==
    IF TsFalsy(t) THEN Ok(NoInstant)
    ELSE IF t.k = "str"
    THEN OrElse(fromisoformat(RemoveUtc(ReplaceZ(t.toks))),
                TryFormats(Before(Before(ReplaceZ(t.toks), {"+00:00", "+05:00"}), {"Z"}),
                           <<FmtTFrac, FmtSpace>>))
    ELSE IF t.k = "num" THEN Caught(MillisOrSeconds(t))
    ELSE Ok(NoInstant)

\* chatgpt.py, lines 150-155: created_at of a conversation item.
chatgpt_created_at(t) ==
    IF t.k \in {"absent", "null"} THEN Ok(NoInstant)
    ELSE IF t.k = "num" THEN Caught(fromtimestamp(t.neg, t.limbs, 0))
    ELSE Caught(Raise("TypeError"))

\* created_at of an item, as the adapter computes it.
ItemCreated(ad, item) ==
    CASE ad = "chatgpt" -> chatgpt_created_at(item.created_at)
      [] ad = "claude" -> claude_parse_timestamp(item.created_at)
      [] ad = "gemini" -> gemini_parse_timestamp(item.created_at)
      [] ad = "copilot" -> copilot_parse_timestamp(item.created_at)

(***************************************************************************)
(* ChatGPT adapter: chatgpt.py.                                            *)
(*                                                                         *)
(* A message of a mapping node is                                          *)
(*   [present, id, hidden, content_type, role, parts, create_time,         *)
(*    model_slug]                                                          *)
(* present = FALSE stands for a node without "message" (or with null);     *)
(* hidden is metadata.is_visually_hidden_from_conversation; parts is       *)
(* content.parts, each part [isStr, s] (a non-string part is an image or   *)
(* another object); model_slug is metadata.model_slug.  A node is [parentNull, children, message]; a mapping  *)
(* is [keys, node]: the keys in the dict's iteration order and the nodes.  *)
(***************************************************************************)
NoMessage == [present |-> FALSE, id |-> "", hidden |-> FALSE,
              content_type |-> "text", role |-> "", parts |-> <<>>,
              create_time |-> NoTs, model_slug |-> A0]

EmptyMapping == [keys |-> <<>>, node |-> <<>>]

None == [some |-> FALSE, id |-> ""]

Some(id) == [some |-> TRUE, id |-> id]

\* should_include_message without the test of the hidden flag.
should_include_message_KeepHidden(message) ==
    IF ~message.present THEN FALSE
    ELSE IF message.content_type \in {"user_editable_context", "system_error"} THEN FALSE
    ELSE message.role \in {"user", "assistant", "tool"}

\* should_include_message
should_include_message(message) ==
    IF ~message.present THEN FALSE
    ELSE IF message.hidden THEN FALSE
    ELSE IF message.content_type \in {"user_editable_context", "system_error"} THEN FALSE
    ELSE IF message.role \in {"user", "assistant"} THEN TRUE
    ELSE IF message.role = "tool" THEN TRUE
    ELSE FALSE

\* parse_message, lines 95-101: the string parts joined by "\n".
text_content(message) ==
    JoinNL([i \in 1..Len(SelectSeq(message.parts, LAMBDA p : p.isStr)) |->
                SelectSeq(message.parts, LAMBDA p : p.isStr)[i].s])

\* parse_message, lines 108-114: created_at of a message.
chatgpt_message_created(t) ==
    IF TsFalsy(t) THEN Ok(NoInstant)
    ELSE IF t.k = "num" THEN Caught(fromtimestamp(t.neg, t.limbs, 0))
    ELSE Ok(NoInstant)

\* parse_message: <<>> stands for None, <<m>> for the message record m.
parse_message(message, ord) ==
    IF Strip(text_content(message)) = <<>> THEN <<>>
    ELSE << [source_id |-> message.id,
             role |-> message.role,
             content |-> text_content(message),
             content_type |-> message.content_type,
             created_at |-> chatgpt_message_created(message.create_time).v,
             order_index |-> ord,
             model |-> Get(message.model_slug)] >>

\* parse_message, line 112, raises an exception that line 113 does not name.
MessageError(message) ==
    IF Strip(text_content(message)) = <<>> THEN "none"
    ELSE chatgpt_message_created(message.create_time).err

\* extract_messages_from_mapping, lines 19-24: the first node in iteration
\* order whose parent is None, or None.
FirstNullParent(mapping) ==
    LET c == {i \in 1..Len(mapping.keys) : mapping.node[mapping.keys[i]].parentNull}
    IN  IF c = {} THEN None
        ELSE Some(mapping.keys[CHOOSE i \in c : \A j \in c : i <= j])

\* extract_messages_from_mapping, lines 19-28: `if not root_id` is true of
\* None and of the empty string.
FindRoot(mapping) ==
    LET r == FirstNullParent(mapping)
    IN  IF ~r.some \/ r.id = "" THEN mapping.keys[1] ELSE r.id

\* What traverse() appends for the node it enters: lines 36-41.
NodeMessages(node, ord) ==
    IF node.message.present /\ should_include_message(node.message)
    THEN parse_message(node.message, ord)
    ELSE <<>>

\* The exception of the call parse_message of lines 38-39, "none" without.
NodeError(node) ==
    IF node.message.present /\ should_include_message(node.message)
    THEN MessageError(node.message)
    ELSE "none"


\* A located conversations value: what `conversations` is bound to.
\* k is "none" (None), "list" or "num".
NoConversations == [k |-> "none", items |-> <<>>]

\* bool() of a top-level field.
FieldTruthy(v) == (v.k = "list" /\ v.items # <<>>) \/ v.k = "num"

AsConversations(v) ==
    IF v.k \in {"list", "num"} THEN [k |-> v.k, items |-> v.items] ELSE NoConversations

(***************************************************************************)
(* parse_chatgpt_export and extract_messages_from_mapping as steps.  The   *)
(* recursion of traverse() is kept as the explicit stack of its active     *)
(* calls: a frame [node, i] is a call traverse(node, ..) that has not yet  *)
(* looked its node up (i = 0) or is about to follow child number i.        *)
(***************************************************************************)
\* parse_chatgpt_export, lines 133-137: what `conversations` is bound to.
ChatGPTConversations(p) ==
    IF p.kind = "list" THEN [k |-> "list", items |-> p.items]
    ELSE IF p.kind = "dict" THEN AsConversations(p.fields["conversations"])
    ELSE NoConversations

Conversations == ChatGPTConversations(payload).items

CurMapping == Conversations[idx].mapping

\* parse_chatgpt_export with payload.get("conversations", []).
ChatGPTDetect_DefaultEmpty ==
    /\ adapter = "chatgpt" /\ pc = "start"
    /\ LET c == ChatGPTConversations(payload) IN
        IF c.k = "none" /\ payload.kind # "dict"
        THEN pc' = "error" /\ error' = "ValueError"
        ELSE IF c.k = "num"
        THEN pc' = "error" /\ error' = "TypeError"
        ELSE pc' = "items" /\ error' = "none"
    /\ UNCHANGED <<serverVars, adapter, payload, parsed, idx, walkVars>>

\* parse_chatgpt_export, lines 133-143: shape detection; None raises the
\* format error, a number cannot be iterated.
ChatGPTDetect ==
    /\ adapter = "chatgpt" /\ pc = "start"
    /\ LET c == ChatGPTConversations(payload) IN
        IF c.k = "none"
        THEN pc' = "error" /\ error' = "ValueError"
        ELSE IF c.k = "num"
        THEN pc' = "error" /\ error' = "TypeError"
        ELSE pc' = "items" /\ error' = "none"
    /\ UNCHANGED <<serverVars, adapter, payload, parsed, idx, walkVars>>

\* parse_chatgpt_export, lines 150-155: datetime.fromtimestamp(create_time)
\* raises an exception that the `except` clause does not name.
CreateTimeError ==
    /\ adapter = "chatgpt" /\ pc = "items" /\ idx <= Len(Conversations)
    /\ chatgpt_created_at(Conversations[idx].created_at).err # "none"
    /\ error' = chatgpt_created_at(Conversations[idx].created_at).err
    /\ parsed' = <<>>
    /\ pc' = "error"
    /\ UNCHANGED <<serverVars, adapter, payload, idx, walkVars>>

\* parse_chatgpt_export, lines 143-166, and extract_messages_from_mapping,
\* lines 13-28 and 49: an empty mapping gives no messages; otherwise the root
\* is chosen and traverse(root_id, 0) is called.
ExtractStart ==
    /\ adapter = "chatgpt" /\ pc = "items" /\ idx <= Len(Conversations)
    /\ chatgpt_created_at(Conversations[idx].created_at).err = "none"
    /\ messages' = <<>>
    /\ order' = 0
    /\ IF CurMapping.keys = <<>>
       THEN root' = None /\ stack' = <<>>
       ELSE /\ root' = Some(FindRoot(CurMapping))
            /\ stack' = << [node |-> FindRoot(CurMapping), i |-> 0] >>
    /\ pc' = "walk"
    /\ UNCHANGED <<serverVars, adapter, payload, error, parsed, idx>>

\* traverse, lines 32-41: look the node up; an unknown id returns at once,
\* a known node has its message filtered, parsed and appended.
TraverseEnter ==
    /\ pc = "walk" /\ stack # <<>> /\ Last(stack).i = 0
    /\ LET id == Last(stack).node IN
        IF id \notin DOMAIN CurMapping.node
        THEN /\ stack' = Front(stack)
             /\ UNCHANGED <<messages, order>>
        ELSE LET got == NodeMessages(CurMapping.node[id], order) IN
             /\ NodeError(CurMapping.node[id]) = "none"
             /\ messages' = messages \o got
             /\ order' = order + Len(got)
             /\ stack' = [stack EXCEPT ![Len(stack)].i = 1]
    /\ UNCHANGED <<serverVars, adapter, payload, pc, error, parsed, idx, root>>

\* traverse, lines 38-39: parse_message raises for the node entered, and
\* nothing in the adapter catches it.
TraverseError ==
    /\ pc = "walk" /\ stack # <<>> /\ Last(stack).i = 0
    /\ Last(stack).node \in DOMAIN CurMapping.node
    /\ NodeError(CurMapping.node[Last(stack).node]) # "none"
    /\ pc' = "error"
    /\ error' = NodeError(CurMapping.node[Last(stack).node])
    /\ parsed' = <<>>
    /\ UNCHANGED <<serverVars, adapter, payload, idx, walkVars>>

\* TraverseChild following the children from the last to the first.
TraverseChild_Reversed ==
    /\ pc = "walk" /\ stack # <<>>
    /\ LET top == Last(stack)
           ch == CurMapping.node[top.node].children IN
        /\ top.i >= 1
        /\ top.i <= Len(ch)
        /\ Len(stack) < RecursionLimit
        /\ stack' = [stack EXCEPT ![Len(stack)].i = top.i + 1]
                      \o << [node |-> ch[Len(ch) + 1 - top.i], i |-> 0] >>
    /\ UNCHANGED <<serverVars, adapter, payload, pc, error, parsed, idx, root, order, messages>>

\* traverse, lines 44-45: the call traverse(child_id, order) for the next
\* child of the node.
TraverseChild ==
    /\ pc = "walk" /\ stack # <<>>
    /\ LET top == Last(stack) IN
        /\ top.i >= 1
        /\ top.i <= Len(CurMapping.node[top.node].children)
        /\ Len(stack) < RecursionLimit
        /\ stack' = [stack EXCEPT ![Len(stack)].i = top.i + 1]
                      \o << [node |-> CurMapping.node[top.node].children[top.i], i |-> 0] >>
    /\ UNCHANGED <<serverVars, adapter, payload, pc, error, parsed, idx, root, order, messages>>

\* traverse, line 45, when the interpreter's call stack is exhausted: the
\* call raises RecursionError, which nothing in the adapter catches.
TraverseOverflow ==
    /\ pc = "walk" /\ stack # <<>>
    /\ LET top == Last(stack) IN
        /\ top.i >= 1
        /\ top.i <= Len(CurMapping.node[top.node].children)
        /\ Len(stack) >= RecursionLimit
    /\ pc' = "error"
    /\ error' = "RecursionError"
    /\ parsed' = <<>>
    /\ UNCHANGED <<serverVars, adapter, payload, idx, walkVars>>

\* traverse, line 47: all children followed, the call returns.
TraverseReturn ==
    /\ pc = "walk" /\ stack # <<>>
    /\ LET top == Last(stack) IN
        /\ top.i >= 1
        /\ top.i > Len(CurMapping.node[top.node].children)
    /\ stack' = Front(stack)
    /\ UNCHANGED <<serverVars, adapter, payload, pc, error, parsed, idx, root, order, messages>>

\* The conversation record of parse_chatgpt_export, lines 168-177.
ChatGPTRecord(item, msgs) ==
    [source |-> "chatgpt",
     title |-> IF item.title.k = "absent" THEN [k |-> "null", s |-> <<>>] ELSE item.title,
     created_at |-> chatgpt_created_at(item.created_at).v,
     message_count |-> Len(msgs), messages |-> msgs]

\* parse_chatgpt_export, lines 166-177: extract_messages_from_mapping has
\* returned, the record is appended and the loop goes to the next item.
ItemAppend ==
    /\ adapter = "chatgpt" /\ pc = "walk" /\ stack = <<>>
    /\ parsed' = Append(parsed, ChatGPTRecord(Conversations[idx], messages))
    /\ idx' = idx + 1
    /\ pc' = "items"
    /\ UNCHANGED <<serverVars, adapter, payload, error, walkVars>>

\* parse_chatgpt_export, line 179.
ChatGPTReturn ==
    /\ adapter = "chatgpt" /\ pc = "items" /\ idx > Len(Conversations)
    /\ pc' = "done"
    /\ UNCHANGED <<serverVars, adapter, payload, error, parsed, idx, walkVars>>

(***************************************************************************)
(* JSON values read by the array-based adapters (claude.py, gemini.py,     *)
(* copilot.py).  A scalar is [k, s]: k is "absent", "null", "str" or       *)
(* "num", s the string, or the digits of the number.  A value adds the     *)
(* kinds "dict" (with its keys text, value, content and parts) and "list"  *)
(* (with its elements, each a scalar or a dict with text and value).       *)
(* A message element is [isMap, id, f, created_at, model]: f gives the      *)
(* value of each key of MsgFields, created_at is the timestamp value the   *)
(* adapter hands to parse_timestamp, model the value of the key `model`.   *)
(***************************************************************************)
NoParts == [k |-> "absent", elems |-> <<>>]

PartsOf(elems) == [k |-> "list", elems |-> elems]

Val(k, s, text, value, content, parts, elems) ==
    [k |-> k, s |-> s, text |-> text, value |-> value, content |-> content,
     parts |-> parts, elems |-> elems]

AbsentV == Val("absent", <<>>, A0, A0, A0, NoParts, <<>>)

NullV == Val("null", <<>>, A0, A0, A0, NoParts, <<>>)

StrV(s) == Val("str", s, A0, A0, A0, NoParts, <<>>)

NumV(s) == Val("num", s, A0, A0, A0, NoParts, <<>>)

DictV(text, value, content, parts) == Val("dict", <<>>, text, value, content, parts, <<>>)

ListV(elems) == Val("list", <<>>, A0, A0, A0, NoParts, elems)

\* An element of a list value.
Elem(k, s, text, value) == [k |-> k, s |-> s, text |-> text, value |-> value]

StrE(s) == Elem("str", s, A0, A0)

DictE(text, value) == Elem("dict", <<>>, text, value)

MsgFields == {"role", "author", "sender", "type", "text", "content", "message",
              "prompt", "response", "request", "query", "user_input"}

\* bool(v) of Python: None, "", 0, [] and {} are false.
Truthy(v) ==
    CASE v.k = "str" -> v.s # <<>>
      [] v.k = "num" -> v.s # <<"0">>
      [] v.k = "list" -> v.elems # <<>>
      [] v.k = "dict" -> TRUE
      [] v.k = "obj" -> TRUE
      [] OTHER -> FALSE

\* `a or b or ... or default`: the first operand that is true, else the last.
RECURSIVE OrChain(_, _)
OrChain(vs, default) ==
    IF vs = <<>> THEN default
    ELSE IF Truthy(vs[1]) THEN vs[1]
    ELSE OrChain(Tail(vs), default)

\* str(v) of a scalar or a value.  The repr of a dict or a list is a
\* non-blank string; only its brackets are kept.
PyStr(v) ==
    CASE v.k = "str" -> v.s
      [] v.k = "num" -> v.s
      [] v.k = "dict" -> <<"{", "}">>
      [] v.k = "obj" -> <<"{", "}">>
      [] v.k = "list" -> <<"[", "]">>
      [] OTHER -> <<"None">>

\* str.lower() on the words the role tables are written in.
LowerWord(w) ==
    CASE w = "USER" -> "user"
      [] w = "Human" -> "human"
      [] w = "Assistant" -> "assistant"
      [] w = "MODEL" -> "model"
      [] OTHER -> w

Lower(s) == [i \in 1..Len(s) |-> LowerWord(s[i])]

\* gemini.py extract_content
GeminiExtractContent(msg) ==
    LET content == OrChain(<<msg.f["text"], msg.f["content"], msg.f["message"],
                             msg.f["prompt"], msg.f["response"]>>, StrV(<<>>))
    IN  IF content.k = "dict"
        THEN IF Truthy(content.text) THEN Ok(PyStr(content.text))
             ELSE IF content.parts.k = "absent" THEN Ok(<<>>)
             ELSE IF content.parts.k = "null" THEN Raise("TypeError")
             ELSE IF content.parts.elems = <<>> THEN Raise("IndexError")
             ELSE Ok(PyStr(content.parts.elems[1]))
        ELSE IF content.k = "list"
        THEN Ok(JoinNL([i \in 1..Len(SelectSeq(content.elems, Truthy)) |->
                           PyStr(SelectSeq(content.elems, Truthy)[i])]))
        ELSE Ok(PyStr(content))

\* copilot.py extract_content, lines 146-154: the parts collected from a list.
CopilotParts(elems) ==
    LET used == SelectSeq(elems, LAMBDA e : e.k \in {"str", "dict"})
    IN  [i \in 1..Len(used) |->
            IF used[i].k = "str" THEN S0(used[i].s)
            ELSE OrChain(<<used[i].text, used[i].value>>, S0(<<>>))]

\* copilot.py extract_content, line 154: "\n".join(parts) takes strings only.
CopilotJoin(parts) ==
    IF \E i \in 1..Len(parts) : parts[i].k # "str" THEN Raise("TypeError")
    ELSE Ok(JoinNL([i \in 1..Len(parts) |-> parts[i].s]))

\* copilot.py extract_content
CopilotExtractContent(msg) ==
    LET content == OrChain(<<msg.f["content"], msg.f["text"], msg.f["message"],
                             msg.f["response"], msg.f["request"], msg.f["query"]>>,
                           StrV(<<>>))
    IN  IF content.k = "dict"
        THEN Ok(PyStr(OrChain(<<content.text, content.value, content.content>>, S0(<<>>))))
        ELSE IF content.k = "list" THEN CopilotJoin(CopilotParts(content.elems))
        ELSE Ok(PyStr(content))

\* determine_role comparing the role as it is written, without lower().
GeminiDetermineRole_CaseSensitive(msg) ==
    LET role == OrChain(<<msg.f["role"], msg.f["author"], msg.f["sender"]>>, msg.f["sender"])
    IN  IF Truthy(role) /\ PyStr(role) \in {<<"user">>, <<"human">>} THEN "user"
        ELSE IF Truthy(role) /\ PyStr(role) \in {<<"model">>, <<"assistant">>, <<"ai">>,
                                                  <<"gemini">>, <<"bard">>} THEN "assistant"
        ELSE IF Truthy(msg.f["user_input"]) \/ Truthy(msg.f["prompt"]) THEN "user"
        ELSE "assistant"

\* gemini.py determine_role
GeminiDetermineRole(msg) ==
    LET role == OrChain(<<msg.f["role"], msg.f["author"], msg.f["sender"]>>, msg.f["sender"])
        role_lower == Lower(PyStr(role))
    IN  IF Truthy(role) /\ role_lower \in {<<"user">>, <<"human">>} THEN "user"
        ELSE IF Truthy(role) /\ role_lower \in {<<"model">>, <<"assistant">>, <<"ai">>,
                                                <<"gemini">>, <<"bard">>} THEN "assistant"
        ELSE IF Truthy(msg.f["user_input"]) \/ Truthy(msg.f["prompt"]) THEN "user"
        ELSE "assistant"

\* determine_role without the fallback on request, query and prompt.
CopilotDetermineRole_NoFallback(msg) ==
    LET role == OrChain(<<msg.f["role"], msg.f["author"], msg.f["sender"], msg.f["type"]>>,
                        msg.f["type"])
        role_lower == Lower(PyStr(role))
    IN  IF Truthy(role) /\ role_lower \in {<<"user">>, <<"human">>, <<"question">>} THEN "user"
        ELSE IF Truthy(role) /\ role_lower \in {<<"system">>, <<"context">>} THEN "system"
        ELSE "assistant"

\* copilot.py determine_role
CopilotDetermineRole(msg) ==
    LET role == OrChain(<<msg.f["role"], msg.f["author"], msg.f["sender"], msg.f["type"]>>,
                        msg.f["type"])
        role_lower == Lower(PyStr(role))
    IN  IF Truthy(role) /\ role_lower \in {<<"user">>, <<"human">>, <<"question">>} THEN "user"
        ELSE IF Truthy(role) /\ role_lower \in {<<"assistant">>, <<"copilot">>, <<"ai">>,
                                                <<"answer">>, <<"response">>} THEN "assistant"
        ELSE IF Truthy(role) /\ role_lower \in {<<"system">>, <<"context">>} THEN "system"
        ELSE IF Truthy(msg.f["request"]) \/ Truthy(msg.f["query"]) \/ Truthy(msg.f["prompt"])
        THEN "user"
        ELSE "assistant"

(***************************************************************************)
(* The array-based adapters.  A payload is [kind, fields, items, uuid,     *)
(* self]: kind "list" with its items; kind "dict" with the values of its   *)
(* top-level keys (fields), whether it has a `uuid` or `created_at` key,   *)
(* and the item it is when read as one conversation (self); or "other"     *)
(* (a string, a number, null).  An item is [mapping, key, msgs]: key names *)
(* the one key of the item that holds its message list.                    *)
(***************************************************************************)
Message(source_id, role, content, content_type, created_at, order_index, model) ==
    [source_id |-> source_id, role |-> role, content |-> content,
     content_type |-> content_type, created_at |-> created_at,
     order_index |-> order_index, model |-> model]

\* What a turn of the message loop reads of its conversation: created_at
\* as parsed, and the value of the key `model`.
Conv(created_at, model) == [created_at |-> created_at, model |-> model]

\* The message record once its timestamp is parsed: an exception of
\* parse_timestamp ends the call.
Stamped(created, m) ==
    IF created.err # "none" THEN created
    ELSE Ok(<< [m EXCEPT !.created_at = created.v] >>)

\* gemini.py line 81, copilot.py line 82: `msg_created or created_at`.
OrConversation(created, conv) ==
    IF created.err = "none" /\ created.v.k = "none" THEN Ok(conv.created_at) ELSE created

\* claude.py, lines 46-67, with `if content.strip()` replaced by `if content`.
ClaudeMessage_NoStrip(msg, i, conv) ==
    IF ~msg.isMap THEN Raise("AttributeError")
    ELSE IF msg.f["text"].k \notin {"absent", "str"} THEN Raise("AttributeError")
    ELSE IF msg.f["text"].s = <<>> THEN Ok(<<>>)
    ELSE Stamped(claude_parse_timestamp(msg.created_at),
                 Message(msg.id,
                         IF msg.f["sender"] = StrV(<<"human">>) THEN "user" ELSE "assistant",
                         msg.f["text"].s, "text", NoInstant, i,
                         OrChain(<<conv.model>>, S0(<<"claude">>))))

\* claude.py, lines 46-67: one turn of the loop over chat_messages; i is
\* the position idx of enumerate().
ClaudeMessage(msg, i, conv) ==
    IF ~msg.isMap THEN Raise("AttributeError")
    ELSE IF msg.f["text"].k \notin {"absent", "str"} THEN Raise("AttributeError")
    ELSE IF Strip(msg.f["text"].s) = <<>> THEN Ok(<<>>)
    ELSE Stamped(claude_parse_timestamp(msg.created_at),
                 Message(msg.id,
                         IF msg.f["sender"] = StrV(<<"human">>) THEN "user" ELSE "assistant",
                         msg.f["text"].s, "text", NoInstant, i,
                         OrChain(<<conv.model>>, S0(<<"claude">>))))

\* The triple-backtick fence of a code block, kept as one character.
Fence == "FENCE"

\* copilot.py detect_content_type
CopilotContentType(content) ==
    IF \E j \in 1..Len(content) : content[j] = Fence THEN "code" ELSE "text"

\* gemini.py lines 66-84 and copilot.py lines 67-85: a message whose content
\* is blank is skipped; code_type is the content type of a content with a
\* code fence; created is the message's timestamp as parsed.
Kept(content, source_id, role, code_type, i, created, model) ==
    IF content.err # "none" THEN content
    ELSE IF Strip(content.v) = <<>> THEN Ok(<<>>)
    ELSE Stamped(created,
                 Message(source_id, role, content.v,
                         IF code_type = "code" THEN CopilotContentType(content.v) ELSE "text",
                         NoInstant, i, model))

\* gemini.py, lines 60-84: one turn of the loop over messages_data.
GeminiMessage(msg, i, conv) ==
    IF ~msg.isMap THEN Raise("AttributeError")
    ELSE Kept(GeminiExtractContent(msg), msg.id, GeminiDetermineRole(msg), "text", i,
              OrConversation(gemini_parse_timestamp(msg.created_at), conv),
              OrChain(<<msg.model, conv.model>>, S0(<<"gemini">>)))

\* copilot.py, lines 61-85: one turn of the loop over messages_data.
CopilotMessage(msg, i, conv) ==
    IF ~msg.isMap THEN Raise("AttributeError")
    ELSE Kept(CopilotExtractContent(msg), msg.id, CopilotDetermineRole(msg), "code", i,
              OrConversation(copilot_parse_timestamp(msg.created_at), conv),
              OrChain(<<msg.model>>, S0(<<"copilot">>)))

ParseMessage(ad, msg, i, conv) ==
    CASE ad = "claude" -> ClaudeMessage(msg, i, conv)
      [] ad = "gemini" -> GeminiMessage(msg, i, conv)
      [] ad = "copilot" -> CopilotMessage(msg, i, conv)

\* The loop `for idx, msg in enumerate(...)`: from element number n on; the
\* first exception ends it.
RECURSIVE ParseMessages(_, _, _, _)
ParseMessages(ad, msgs, n, conv) ==
    IF n > Len(msgs) THEN Ok(<<>>)
    ELSE Then(ParseMessage(ad, msgs[n], n - 1, conv), ParseMessages(ad, msgs, n + 1, conv))

\* The keys an adapter looks its message list up under, in order.
MessageKeys(ad) ==
    CASE ad = "claude" -> {"chat_messages"}
      [] ad = "gemini" -> {"messages", "turns", "content"}
      [] ad = "copilot" -> {"messages", "exchanges", "turns"}

\* claude.py line 43, gemini.py lines 52-57, copilot.py lines 53-58.
MessagesData(ad, item) == IF item.key \in MessageKeys(ad) THEN item.msgs ELSE <<>>

\* The length a derived title is cut to, and what a cut title ends in.
TitleLimit == 60

Dots == <<".", ".", ".">>

\* s[:60] + ("..." if len(s) > 60 else "")
Truncate(s) == IF Len(s) > TitleLimit THEN SubSeq(s, 1, TitleLimit) \o Dots ELSE s

Untitled == <<"U", "n", "t", "i", "t", "l", "e", "d">>

UntitledConversation ==
    Untitled \o <<" ", "C", "o", "n", "v", "e", "r", "s", "a", "t", "i", "o", "n">>

\* s.split("\n")[0]
RECURSIVE FirstLine(_)
FirstLine(s) ==
    IF s = <<>> \/ s[1] = NL THEN <<>> ELSE <<s[1]>> \o FirstLine(Tail(s))

\* copilot.py, lines 176-179: the content of a user message is the title
\* unless it is empty.
TitleOr(content, next) ==
    IF content.err # "none" THEN content
    ELSE IF content.v # <<>> THEN Ok(Truncate(content.v))
    ELSE next

\* copilot.py extract_title_from_first_message, lines 174-181: the loop from
\* message number n on.
RECURSIVE FirstUserTitle(_, _)
FirstUserTitle(msgs, n) ==
    IF n > Len(msgs) THEN Ok(UntitledConversation)
    ELSE IF ~msgs[n].isMap THEN Raise("AttributeError")
    ELSE IF CopilotDetermineRole(msgs[n]) # "user" THEN FirstUserTitle(msgs, n + 1)
    ELSE TitleOr(CopilotExtractContent(msgs[n]), FirstUserTitle(msgs, n + 1))

\* copilot.py extract_title_from_first_message
extract_title_from_first_message(item) ==
    FirstUserTitle(IF item.key \in {"messages", "exchanges"} THEN item.msgs ELSE <<>>, 1)

\* copilot.py generate_title_from_messages
RECURSIVE generate_title_from_messages(_)
generate_title_from_messages(msgs) ==
    IF msgs = <<>> THEN UntitledConversation
    ELSE IF msgs[1].role = "user" /\ msgs[1].content # <<>>
    THEN Truncate(FirstLine(Strip(msgs[1].content)))
    ELSE generate_title_from_messages(Tail(msgs))

AsTitle(t) == IF t.err # "none" THEN t ELSE Ok(S0(t.v))

\* The title an adapter reads off the item before it reads the messages:
\* claude.py line 36, gemini.py line 37, copilot.py line 37.
ItemTitle(ad, item) ==
    CASE ad = "claude" -> Ok(OrChain(<<Get(item.name)>>, Get(item.title)))
      [] ad = "gemini" -> Ok(OrChain(<<Get(item.title), Get(item.name)>>, S0(Untitled)))
      [] ad = "copilot" ->
            IF Truthy(item.title) THEN Ok(item.title)
            ELSE IF Truthy(item.name) THEN Ok(item.name)
            ELSE AsTitle(extract_title_from_first_message(item))

\* The title of the record: copilot.py lines 87-89 replace a title that is
\* empty or "Untitled".
RecordTitle(ad, title, msgs) ==
    IF ad = "copilot" /\ (~Truthy(title) \/ title = S0(Untitled))
    THEN S0(generate_title_from_messages(msgs))
    ELSE title

\* The record with message_count taken from the source list.
LinearRecord_CountSource(ad, item, msgs, title, created_at) ==
    [source |-> ad, title |-> RecordTitle(ad, title, msgs),
     created_at |-> created_at,
     message_count |-> Len(MessagesData(ad, item)), messages |-> msgs]

\* claude.py lines 69-78, gemini.py lines 86-95, copilot.py lines 91-100.
LinearRecord(ad, item, msgs, title, created_at) ==
    [source |-> ad, title |-> RecordTitle(ad, title, msgs),
     created_at |-> created_at,
     message_count |-> Len(msgs), messages |-> msgs]

\* The loop body that appends no record for an item without messages.
ParseItem_SkipEmpty(ad, item, title, created_at, msgs) ==
    IF title.err # "none" THEN title
    ELSE IF created_at.err # "none" THEN created_at
    ELSE IF msgs.err # "none" THEN msgs
    ELSE IF msgs.v = <<>> THEN Ok(<<>>)
    ELSE Ok(<<LinearRecord(ad, item, msgs.v, title.v, created_at.v)>>)

\* One turn of the loop `for item in conversations`: the title, the
\* timestamp and the messages are computed in this order, and the first
\* exception ends the call; otherwise the record is appended.
ParseItem(ad, item, title, created_at, msgs) ==
    IF title.err # "none" THEN title
    ELSE IF created_at.err # "none" THEN created_at
    ELSE IF msgs.err # "none" THEN msgs
    ELSE Ok(<<LinearRecord(ad, item, msgs.v, title.v, created_at.v)>>)

\* The loop `for item in conversations`, from item number n on.
RECURSIVE ParseItems(_, _, _)
ParseItems(ad, items, n) ==
    IF n > Len(items) THEN Ok(<<>>)
    ELSE Then(ParseItem(ad, items[n], ItemTitle(ad, items[n]), ItemCreated(ad, items[n]),
                        ParseMessages(ad, MessagesData(ad, items[n]), 1,
                                      Conv(ItemCreated(ad, items[n]).v, items[n].model))),
              ParseItems(ad, items, n + 1))

\* Shape detection that looks for `conversations` and `data` before `uuid`.
ClaudeConversations_KeysFirst(p) ==
    IF p.kind = "list" THEN [k |-> "list", items |-> p.items]
    ELSE IF p.kind = "dict"
    THEN IF p.fields["conversations"].k # "absent"
         THEN AsConversations(p.fields["conversations"])
         ELSE IF p.fields["data"].k # "absent"
         THEN AsConversations(p.fields["data"])
         ELSE IF p.uuid THEN [k |-> "list", items |-> <<p.self>>]
         ELSE [k |-> "list", items |-> <<>>]
    ELSE NoConversations

\* claude.py, lines 17-27.
ClaudeConversations(p) ==
    IF p.kind = "list" THEN [k |-> "list", items |-> p.items]
    ELSE IF p.kind = "dict"
    THEN IF p.uuid THEN [k |-> "list", items |-> <<p.self>>]
         ELSE IF p.fields["conversations"].k # "absent"
         THEN AsConversations(p.fields["conversations"])
         ELSE IF p.fields["data"].k # "absent"
         THEN AsConversations(p.fields["data"])
         ELSE [k |-> "list", items |-> <<>>]
    ELSE NoConversations

\* `payload.get(k1) or payload.get(k2) or payload.get(k3) or [payload]`
RECURSIVE OrFields(_, _)
OrFields(p, keys) ==
    IF keys = <<>> THEN [k |-> "list", items |-> <<p.self>>]
    ELSE IF FieldTruthy(p.fields[keys[1]]) THEN AsConversations(p.fields[keys[1]])
    ELSE OrFields(p, Tail(keys))

\* gemini.py, lines 17-29.
GeminiConversations(p) ==
    IF p.kind = "list" THEN [k |-> "list", items |-> p.items]
    ELSE IF p.kind = "dict" THEN OrFields(p, <<"conversations", "chats", "history">>)
    ELSE NoConversations

\* copilot.py, lines 16-28.
CopilotConversations(p) ==
    IF p.kind = "list" THEN [k |-> "list", items |-> p.items]
    ELSE IF p.kind = "dict" THEN OrFields(p, <<"conversations", "sessions", "chats">>)
    ELSE NoConversations

LinearConversations(ad, p) ==
    CASE ad = "claude" -> ClaudeConversations(p)
      [] ad = "gemini" -> GeminiConversations(p)
      [] ad = "copilot" -> CopilotConversations(p)

\* parse_claude_export, parse_gemini_export, parse_copilot_export: `if not
\* conversations: raise ValueError`, then the loop over the items; a number
\* is not iterable.
ParseLinear(ad, p) ==
    LET c == LinearConversations(ad, p) IN
    IF c.k = "none" \/ (c.k = "list" /\ c.items = <<>>) THEN Raise("ValueError")
    ELSE IF c.k = "num" THEN Raise("TypeError")
    ELSE ParseItems(ad, c.items, 1)

\* The call returns the records, or ends in the exception.
Return(r) ==
    /\ error' = r.err
    /\ parsed' = r.v
    /\ pc' = IF r.err = "none" THEN "done" ELSE "error"

ParseClaude ==
    /\ adapter = "claude" /\ pc = "start"
    /\ Return(ParseLinear("claude", payload))
    /\ UNCHANGED <<serverVars, adapter, payload, idx, walkVars>>

ParseGemini ==
    /\ adapter = "gemini" /\ pc = "start"
    /\ Return(ParseLinear("gemini", payload))
    /\ UNCHANGED <<serverVars, adapter, payload, idx, walkVars>>

ParseCopilot ==
    /\ adapter = "copilot" /\ pc = "start"
    /\ Return(ParseLinear("copilot", payload))
    /\ UNCHANGED <<serverVars, adapter, payload, idx, walkVars>>

(***************************************************************************)
(* Inputs.                                                                 *)
(***************************************************************************)
TopKeys == {"conversations", "data", "chats", "history", "sessions"}

Absent == [k |-> "absent", items |-> <<>>]

Null == [k |-> "null", items |-> <<>>]

ListOf(items) == [k |-> "list", items |-> items]

\* A top-level value that is a number other than 0.
NumField == [k |-> "num", items |-> <<>>]

NoFields == [f \in TopKeys |-> Absent]

\* Sequences over S of length at most n.
RECURSIVE SeqsUpTo(_, _)
SeqsUpTo(S, n) ==
    IF n = 0 THEN {<<>>}
    ELSE LET shorter == SeqsUpTo(S, n - 1)
         IN  shorter \cup {Append(q, x) : q \in {r \in shorter : Len(r) = n - 1}, x \in S}

\* Sequences of distinct elements of S.
RECURSIVE Orders(_)
Orders(S) ==
    IF S = {} THEN {<<>>}
    ELSE UNION {{<<x>> \o q : q \in Orders(S \ {x})} : x \in S}

\* The messages of the structural inputs: a visible user message and a
\* hidden assistant message.
TextA == <<"a">>

StrPart(s) == [isStr |-> TRUE, s |-> s]

ObjPart == [isStr |-> FALSE, s |-> <<>>]

VisibleMsg(id) == [present |-> TRUE, id |-> id, hidden |-> FALSE,
                   content_type |-> "text", role |-> "user", parts |-> <<StrPart(TextA)>>,
                   create_time |-> NoTs, model_slug |-> A0]

HiddenMsg(id) == [present |-> TRUE, id |-> id, hidden |-> TRUE,
                  content_type |-> "text", role |-> "assistant", parts |-> <<StrPart(TextA)>>,
                  create_time |-> NoTs, model_slug |-> A0]

\* Every message the inclusion filter and parse_message tell apart.
FilterMsgs(id) ==
    [present : {TRUE}, id : {id}, hidden : BOOLEAN,
     content_type : {"text", "user_editable_context", "system_error"},
     role : {"user", "assistant", "tool", "system"},
     parts : {<<>>, <<StrPart(TextA)>>, <<StrPart(<<" ">>), StrPart(<<>>)>>,
              <<ObjPart, StrPart(<<" ", "a">>)>>},
     create_time : {NoTs}, model_slug : {A0}]

EdgeCount(keys, ch) ==
    LET RECURSIVE Sum(_)
        Sum(i) == IF i = 0 THEN 0 ELSE Len(ch[keys[i]]) + Sum(i - 1)
    IN  Sum(Len(keys))

\* The key orders of a non-empty mapping over NodeIds.  "a" and "b" are
\* interchangeable, so "b" is taken to come after "a".
KeyOrders ==
    {q \in UNION {Orders(S) : S \in SUBSET NodeIds} :
        /\ q # <<>>
        /\ ("b" \in {q[i] : i \in 1..Len(q)}) =>
              \E i, j \in 1..Len(q) : i < j /\ q[i] = "a" /\ q[j] = "b"}

KeySet(q) == {q[i] : i \in 1..Len(q)}

ChildLists(q) ==
    {c \in [KeySet(q) -> SeqsUpTo(NodeIds, MaxEdges)] : EdgeCount(q, c) <= MaxEdges}

WalkMapping(q, pn, ch, ms) ==
    [keys |-> q,
     node |-> [id \in KeySet(q) |->
                 [parentNull |-> pn[id], children |-> ch[id],
                  message |-> IF ms[id] = "visible" THEN VisibleMsg(id)
                              ELSE IF ms[id] = "hidden" THEN HiddenMsg(id)
                              ELSE NoMessage]]]

\* The chain root -> "a" -> "b" whose root carries no message.
ChainMapping(ma, mb) ==
    [keys |-> <<"r", "a", "b">>,
     node |-> [id \in {"r", "a", "b"} |->
                 [parentNull |-> id = "r",
                  children |-> IF id = "r" THEN <<"a">> ELSE IF id = "a" THEN <<"b">> ELSE <<>>,
                  message |-> IF id = "r" THEN NoMessage ELSE IF id = "a" THEN ma ELSE mb]]]

ChatGPTItem(m) ==
    [mapping |-> m, key |-> "mapping", msgs |-> <<>>, title |-> A0, name |-> A0,
     created_at |-> NoTs, model |-> A0]

\* An item with its message list under `key` and the keys `title` and `name`.
TitledItem(key, msgs, title, name) ==
    [mapping |-> EmptyMapping, key |-> key, msgs |-> msgs, title |-> title, name |-> name,
     created_at |-> NoTs, model |-> A0]

LinearItem(key, msgs) == TitledItem(key, msgs, A0, A0)

ListPayload(items) ==
    [kind |-> "list", fields |-> NoFields, items |-> items, uuid |-> FALSE,
     self |-> LinearItem("none", <<>>)]

DictPayload(fields, uuid, self) ==
    [kind |-> "dict", fields |-> fields, items |-> <<>>, uuid |-> uuid, self |-> self]

OtherPayload ==
    [kind |-> "other", fields |-> NoFields, items |-> <<>>, uuid |-> FALSE,
     self |-> LinearItem("none", <<>>)]

Adapters == {"chatgpt", "claude", "gemini", "copilot"}

LinearAdapters == {"claude", "gemini", "copilot"}

Msg(pairs) ==
    [isMap |-> TRUE, id |-> "",
     f |-> [x \in MsgFields |-> IF x \in DOMAIN pairs THEN pairs[x] ELSE AbsentV],
     created_at |-> NoTs, model |-> A0]

\* An element of a message list that is no JSON object.
NonMap == [isMap |-> FALSE, id |-> "", f |-> [x \in MsgFields |-> AbsentV],
           created_at |-> NoTs, model |-> A0]

ClaudeMsgs ==
    { NonMap,
      Msg(("sender" :> StrV(<<"human">>)) @@ ("text" :> StrV(TextA))),
      Msg(("sender" :> StrV(<<"assistant">>)) @@ ("text" :> StrV(<<" ", "a">>))),
      Msg(("sender" :> StrV(<<"human">>)) @@ ("text" :> StrV(<<" ", NL>>))),
      Msg(("sender" :> StrV(<<"human">>))),
      Msg(("text" :> NullV)),
      Msg(("text" :> NumV(<<"5">>))),
      Msg(("text" :> StrV(<<"a", NL>>))) }

GeminiMsgs ==
    { NonMap,
      Msg(<<>>),
      Msg(("role" :> StrV(<<"USER">>)) @@ ("text" :> StrV(TextA))),
      Msg(("role" :> StrV(<<"model">>)) @@ ("content" :> StrV(<<" ">>))),
      Msg(("prompt" :> StrV(<<"a", " ">>))),
      Msg(("text" :> NumV(<<"5">>))),
      Msg(("content" :> DictV(S0(TextA), A0, A0, NoParts))),
      Msg(("content" :> DictV(A0, A0, A0, PartsOf(<<>>)))),
      Msg(("content" :> DictV(A0, A0, A0, PartsOf(<<S0(<<" ">>)>>)))),
      Msg(("content" :> ListV(<<StrE(TextA), StrE(<<>>), StrE(<<" ">>)>>))) }

\* {"content": [{"text": "part1"}, {"text": "part2"}], "query": "q"}
PartsMsg ==
    Msg(("content" :> ListV(<<DictE(S0(<<"p", "a", "r", "t", "1">>), A0),
                              DictE(S0(<<"p", "a", "r", "t", "2">>), A0)>>))
            @@ ("query" :> StrV(<<"q">>)))

CopilotMsgs ==
    { NonMap,
      PartsMsg,
      Msg(<<>>),
      Msg(("role" :> StrV(<<"user">>)) @@ ("content" :> StrV(TextA))),
      Msg(("type" :> StrV(<<"answer">>)) @@ ("text" :> StrV(<<NL>>))),
      Msg(("request" :> StrV(<<" ", "a">>))),
      Msg(("content" :> DictV(A0, S0(<<Fence, "a">>), A0, NoParts))),
      Msg(("content" :> DictV(S0(<<" ">>), A0, A0, NoParts))),
      Msg(("content" :> ListV(<<DictE(S0(TextA), A0), DictE(A0, S0(<<"b">>))>>))
              @@ ("query" :> StrV(<<"q">>))),
      Msg(("content" :> ListV(<<DictE(I0(<<"5">>), A0)>>))),
      Msg(("content" :> ListV(<<StrE(<<" ">>), StrE(<<>>)>>))) }

MsgsOf(ad) ==
    CASE ad = "claude" -> ClaudeMsgs
      [] ad = "gemini" -> GeminiMsgs
      [] ad = "copilot" -> CopilotMsgs

\* A message that the adapter keeps.
GoodMsg(ad) ==
    CASE ad = "claude" -> Msg(("sender" :> StrV(<<"human">>)) @@ ("text" :> StrV(TextA)))
      [] ad = "gemini" -> Msg(("role" :> StrV(<<"USER">>)) @@ ("text" :> StrV(TextA)))
      [] ad = "copilot" -> Msg(("role" :> StrV(<<"user">>)) @@ ("content" :> StrV(TextA)))

MainKey(ad) == IF ad = "claude" THEN "chat_messages" ELSE "messages"

SingleNode(kind) ==
    WalkMapping(<<"a">>, [id \in {"a"} |-> TRUE], [id \in {"a"} |-> <<>>],
                [id \in {"a"} |-> kind])

\* An item with one kept message, and one with none.
GoodItem(ad) ==
    IF ad = "chatgpt" THEN ChatGPTItem(SingleNode("visible"))
    ELSE LinearItem(MainKey(ad), <<GoodMsg(ad)>>)

BareItem(ad) ==
    IF ad = "chatgpt" THEN ChatGPTItem(EmptyMapping) ELSE LinearItem("none", <<>>)

RECURSIVE SumSeq(_)
SumSeq(q) == IF q = <<>> THEN 0 ELSE q[1] + SumSeq(Tail(q))

\* The message counts of the items of a payload: at most MaxItems items
\* with at most MaxMsgs messages together.
Shapes == {q \in SeqsUpTo(0..MaxMsgs, MaxItems) : SumSeq(q) <= MaxMsgs}

\* The items of shape q whose messages, in order, are flat[1], flat[2], ...
Split(key, q, flat) ==
    [n \in 1..Len(q) |->
        LinearItem(key, [j \in 1..q[n] |-> flat[SumSeq(SubSeq(q, 1, n - 1)) + j]])]

\* A bare sequence of items, for each array-based adapter.
InitArrays ==
    \E ad \in LinearAdapters, q \in Shapes :
        \E key \in MessageKeys(ad), flat \in [1..SumSeq(q) -> MsgsOf(ad)] :
            /\ adapter = ad
            /\ payload = ListPayload(Split(key, q, flat))

\* A mapping with one top-level key set, and the item it is by itself.
InitDicts ==
    \E ad \in Adapters, key \in TopKeys :
        \E v \in {Absent, Null, NumField, ListOf(<<>>), ListOf(<<GoodItem(ad)>>)},
           uuid \in IF ad = "claude" THEN BOOLEAN ELSE {FALSE},
           self \in {BareItem(ad), GoodItem(ad)} :
            /\ adapter = ad
            /\ payload = DictPayload([NoFields EXCEPT ![key] = v], uuid, self)

\* The conversation {chat_messages: [{sender: human, text: hi},
\* {sender: assistant, text: hello}]}.
ExampleChat ==
    LinearItem("chat_messages",
               << Msg(("sender" :> StrV(<<"human">>)) @@ ("text" :> StrV(<<"h", "i">>))),
                  Msg(("sender" :> StrV(<<"assistant">>))
                          @@ ("text" :> StrV(<<"h", "e", "l", "l", "o">>))) >>)

\* A Claude mapping that has a `uuid` or `created_at` key: the conversation
\* it is by itself, with or without a `conversations` or `data` key.
InitClaudeSingle ==
    \E key \in {"conversations", "data"},
       v \in {Absent, Null, ListOf(<<>>), ListOf(<<GoodItem("claude")>>)},
       n \in 0..MaxMsgs :
        \E msgs \in [1..n -> ClaudeMsgs] \cup {ExampleChat.msgs} :
            /\ adapter = "claude"
            /\ payload = DictPayload([NoFields EXCEPT ![key] = v], TRUE,
                                     LinearItem("chat_messages", msgs))

\* A text of n characters.
Text(n) == [i \in 1..n |-> "x"]

UserMsg(content) == Msg(("role" :> StrV(<<"user">>)) @@ ("content" :> StrV(content)))

\* The Copilot messages that the title derivation tells apart.
TitleMsgs ==
    { UserMsg(TextA), UserMsg(Text(TitleLimit)), UserMsg(Text(TitleLimit + 1)),
      UserMsg(Text(TitleLimit + 15)), UserMsg(<<" ", "a">>), UserMsg(<<"a", NL, "b">>),
      UserMsg(Untitled), UserMsg(<<>>), UserMsg(<<" ">>),
      Msg(("query" :> StrV(<<"q">>))),
      Msg(("type" :> StrV(<<"answer">>)) @@ ("content" :> StrV(<<"b">>))) }

\* One Copilot conversation with or without `title` and `name`, its messages
\* under any of the three keys.
InitTitles ==
    \E key \in MessageKeys("copilot"),
       title \in {A0, N0, S0(<<>>), S0(Untitled), S0(<<"T">>)},
       name \in {A0, S0(<<"N">>)},
       n \in 0..MaxMsgs :
        \E msgs \in [1..n -> TitleMsgs] :
            /\ adapter = "copilot"
            /\ payload = ListPayload(<<TitledItem(key, msgs, title, name)>>)

\* The numbers a timestamp is read from: around 0, around 1e12, around the
\* last second of the year 9999 and around the range of time_t.
TsNumbers ==
    { <<>>, <<1>>, <<1, 700, 0, 0>>, <<999, 999, 999, 999>>, E12, <<1, 0, 0, 0, 1>>,
      <<1, 700, 0, 0, 0>>, MaxSeconds, <<253, 402, 300, 800>>, <<253, 402, 300, 799, 0>>,
      <<253, 402, 300, 800, 0>>, TimeTMax, <<9, 223, 372, 36, 854, 775, 808>>,
      <<100, 0, 0, 0, 0, 0, 0>>, <<9, 223, 372, 36, 854, 775, 808, 0>>,
      <<10, 0, 0, 0, 0, 0, 0, 0>> }

\* The strings a timestamp is read from.
TsStrings ==
    { <<>>, <<"garbage">>, <<"2024-01-01">>,
      <<"2024-01-01", "T", "00:00:00">>, <<"2024-01-01", " ", "00:00:00">>,
      <<"2024-01-01", "T", "00:00:00", ".500">>,
      <<"2024-01-01", "T", "00:00:00", "Z">>,
      <<"2024-01-01", "T", "00:00:00", ".500", "Z">>,
      <<"2024-01-01", "T", "00:00:00", "+00:00">>,
      <<"2024-01-01", "T", "00:00:00", "+05:00">>,
      <<"2024-01-01", "T", "00:00:00", "-08:00">>,
      <<"2024-01-01", " ", "00:00:00", ".500", "+05:00">>,
      <<"2024-01-01", "+05:00">> }

TsValues ==
    {NoTs, NullTs, OtherTs}
        \cup {NumTs(n) : n \in TsNumbers}
        \cup {NegTs(n) : n \in {<<1>>, MinSeconds, <<62, 135, 510, 401>>, <<100, 0, 0, 0, 0, 0, 0>>}}
        \cup {StrTs(q) : q \in TsStrings}

\* One conversation with one kept message and every kind of timestamp.
InitTimestamps ==
    \E ad \in Adapters, ts \in TsValues :
        /\ adapter = ad
        /\ payload = ListPayload(<<[GoodItem(ad) EXCEPT !.created_at = ts]>>)

\* Messages whose content sits in more than one candidate key, or in a
\* nested object or list.
ContentMsgs(ad) ==
    IF ad = "gemini"
    THEN { Msg(("text" :> StrV(<<>>)) @@ ("content" :> StrV(TextA))),
           Msg(("text" :> NullV) @@ ("content" :> StrV(TextA))),
           Msg(("content" :> StrV(<<"b">>)) @@ ("message" :> StrV(TextA))),
           Msg(("content" :> ListV(<<DictE(S0(TextA), A0), StrE(<<"b">>)>>))),
           Msg(("content" :> DictV(A0, S0(TextA), A0, NoParts))),
           Msg(("content" :> DictV(A0, A0, A0, PartsOf(<<S0(TextA)>>)))) }
    ELSE { Msg(("content" :> StrV(<<>>)) @@ ("text" :> StrV(TextA))),
           Msg(("content" :> NullV) @@ ("text" :> StrV(TextA))),
           Msg(("text" :> StrV(<<"b">>)) @@ ("message" :> StrV(TextA))),
           Msg(("content" :> ListV(<<DictE(A0, S0(TextA)), StrE(<<"b">>)>>))),
           Msg(("content" :> DictV(A0, A0, S0(TextA), NoParts))),
           Msg(("content" :> DictV(A0, A0, A0, PartsOf(<<S0(TextA)>>)))) }

\* One Gemini or Copilot conversation of such messages.
InitContents ==
    \E ad \in {"gemini", "copilot"}, n \in 0..MaxMsgs :
        \E msgs \in [1..n -> ContentMsgs(ad)] :
            /\ adapter = ad
            /\ payload = ListPayload(<<LinearItem("messages", msgs)>>)

\* The timestamp values of a message, and the values of a key `model`.
MsgTimes ==
    { NoTs, NullTs, OtherTs, NumTs(<<>>), NumTs(<<1, 700, 0, 1>>),
      NumTs(<<10, 0, 0, 0, 0, 0, 0, 0>>), StrTs(<<"garbage">>),
      StrTs(<<"2024-01-01", "T", "00:00:00", ".500">>) }

Models == {A0, N0, S0(<<>>), S0(<<"m">>)}

ItemTimes(ad) ==
    IF ad = "chatgpt" THEN {NoTs, NumTs(<<1, 700, 0, 0>>)}
    ELSE {NoTs, StrTs(<<"2024-01-01", "T", "00:00:00">>)}

\* The one message of SingleNode("visible"), with a create_time and a
\* metadata.model_slug.
MetaNode(ts, model) ==
    [SingleNode("visible") EXCEPT !.node["a"].message.create_time = ts,
                                  !.node["a"].message.model_slug = model]

\* An item with one kept message: the message and the item carry a
\* timestamp and a model.
MetaItem(ad, ts, model, its, imodel) ==
    IF ad = "chatgpt"
    THEN [ChatGPTItem(MetaNode(ts, model)) EXCEPT !.created_at = its, !.model = imodel]
    ELSE [LinearItem(MainKey(ad),
                     <<[GoodMsg(ad) EXCEPT !.created_at = ts, !.model = model]>>)
             EXCEPT !.created_at = its, !.model = imodel]

\* One conversation with one kept message, with every timestamp and model.
InitMeta ==
    \E ad \in Adapters, ts \in MsgTimes, model \in Models, imodel \in {A0, S0(<<"c">>)} :
        \E its \in ItemTimes(ad) :
            /\ adapter = ad
            /\ payload = ListPayload(<<MetaItem(ad, ts, model, its, imodel)>>)

\* The words a role field is written in.
RoleWords ==
    { <<"USER">>, <<"Human">>, <<"question">>, <<"MODEL">>, <<"Assistant">>, <<"copilot">>,
      <<"bard">>, <<"answer">>, <<"system">>, <<"context">>, <<"tool">>, <<"other">> }

\* A message with text "a": its `role`, `sender` and `type`, and the one
\* key fb of the fallback that it has.
RoleMsg(role, sender, type, fb) ==
    Msg([x \in {"role", "sender", "type", "text"} \cup ({fb} \cap MsgFields) |->
            CASE x = "role" -> role
              [] x = "sender" -> sender
              [] x = "type" -> type
              [] x = "text" -> StrV(TextA)
              [] OTHER -> StrV(<<"q">>)])

\* One Gemini or Copilot conversation of one message with every spelling
\* of the role.
InitRoles ==
    \E ad \in {"gemini", "copilot"},
       role \in {AbsentV, NullV, StrV(<<>>), NumV(<<"0">>)} \cup {StrV(w) : w \in RoleWords},
       sender \in {AbsentV, StrV(<<"Human">>)},
       type \in {AbsentV, StrV(<<"answer">>)},
       fb \in {"none", "request", "query", "prompt", "user_input"} :
        /\ adapter = ad
        /\ payload = ListPayload(<<LinearItem("messages", <<RoleMsg(role, sender, type, fb)>>)>>)

\* A payload that is neither a sequence nor a mapping.
InitOther ==
    \E ad \in Adapters : adapter = ad /\ payload = OtherPayload

\* A bare sequence of ChatGPT items, each with at most one node.
InitChatGPTItems ==
    \E items \in SeqsUpTo({ChatGPTItem(EmptyMapping)}
                          \cup {ChatGPTItem(SingleNode(k)) : k \in {"none", "visible", "hidden"}},
                          MaxItems) :
        adapter = "chatgpt" /\ payload = ListPayload(items)

\* One conversation whose mapping is any graph within the bounds, with at
\* most one null-parent node.
InitWalk ==
    \E q \in KeyOrders :
        \E pn \in {f \in [KeySet(q) -> BOOLEAN] : Cardinality({id \in KeySet(q) : f[id]}) <= 1},
           ch \in ChildLists(q),
           ms \in [KeySet(q) -> {"none", "visible", "hidden"}] :
            /\ adapter = "chatgpt"
            /\ payload = ListPayload(<<ChatGPTItem(WalkMapping(q, pn, ch, ms))>>)

\* One conversation whose mapping has no child references and any number of
\* null-parent nodes, each node with a visible message.
InitRoots ==
    \E q \in KeyOrders :
        \E pn \in [KeySet(q) -> BOOLEAN] :
            /\ adapter = "chatgpt"
            /\ payload = ListPayload(<<ChatGPTItem(
                  WalkMapping(q, pn, [id \in KeySet(q) |-> <<>>], [id \in KeySet(q) |-> "visible"]))>>)

\* One conversation whose mapping is the chain, with every kind of message.
InitChain ==
    \E ma \in FilterMsgs("a"), mb \in FilterMsgs("b") :
        /\ adapter = "chatgpt"
        /\ payload = ListPayload(<<ChatGPTItem(ChainMapping(ma, mb))>>)

\* No request has been made: the tables are empty.
ServerIdle ==
    /\ phase = "idle"
    /\ raw = "json"
    /\ records = <<>>
    /\ dbHistory = <<>>
    /\ dbConversations = {}
    /\ dbMessages = {}
    /\ deleter = [d \in 1..MaxDeletes |-> [pc |-> "idle", id |-> 0]]
    /\ dbSettings = <<>>
    /\ client = [c \in 1..MaxClients |-> [pc |-> "idle", found |-> FALSE, keep |-> TRUE]]

Init ==
    /\ \/ InitWalk
       \/ InitRoots
       \/ InitChain
       \/ InitChatGPTItems
       \/ InitArrays
       \/ InitDicts
       \/ InitClaudeSingle
       \/ InitTitles
       \/ InitTimestamps
       \/ InitContents
       \/ InitMeta
       \/ InitRoles
       \/ InitOther
    /\ pc = "start"
    /\ error = "none"
    /\ parsed = <<>>
    /\ idx = 1
    /\ root = None
    /\ stack = <<>>
    /\ order = 0
    /\ messages = <<>>
    /\ ServerIdle

Next ==
    \/ ChatGPTDetect
    \/ CreateTimeError
    \/ ExtractStart
    \/ TraverseEnter
    \/ TraverseError
    \/ TraverseChild
    \/ TraverseOverflow
    \/ TraverseReturn
    \/ ItemAppend
    \/ ChatGPTReturn
    \/ ParseClaude
    \/ ParseGemini
    \/ ParseCopilot

Spec == Init /\ [][Next]_vars

(***************************************************************************)
(* The import endpoints of main.py: import_chatgpt, import_claude,         *)
(* import_gemini and import_copilot.  They are coroutines with no await    *)
(* after file.read(), so the event loop runs them one at a time from the   *)
(* creation of the history row to the response.  delete_conversation and   *)
(* the settings handlers are plain functions: each runs in a worker thread *)
(* with a session of its own (database.py get_db), at the same time as a   *)
(* coroutine.  A step of a request is what it does up to and including its *)
(* next commit.                                                            *)
(*                                                                         *)
(* A row of import_history is [source_type, status, imported_count,        *)
(* response]: response is the status code the request ended with, "none"   *)
(* while it runs.  A row of conversations is [id, imp, message_count]: imp *)
(* is the history row of the request that stored it.  A row of messages is *)
(* [conversation_id, n]: n is its position among the messages stored with  *)
(* its conversation.  A DELETE request is [pc, id]; its pc ends as "done"   *)
(* (deleted) or "missing" (404).                                           *)
(***************************************************************************)
Upload(ad, bytes, p) == [adapter |-> ad, raw |-> bytes, payload |-> p]

\* A number beyond the range of time_t.
Huge == NumTs(<<10, 0, 0, 0, 0, 0, 0, 0>>)

\* One node that is its own child.
SelfLoop ==
    WalkMapping(<<"a">>, [id \in {"a"} |-> TRUE], [id \in {"a"} |-> <<"a">>],
                [id \in {"a"} |-> "visible"])

\* The uploaded files: bytes that are no JSON text, bytes that are no
\* UTF-8, and JSON texts of every kind that the adapters tell apart.
Uploads ==
    { Upload("gemini", "notjson", OtherPayload), Upload("copilot", "notutf8", OtherPayload),
      Upload("chatgpt", "json", OtherPayload),
      Upload("chatgpt", "json", ListPayload(<<[GoodItem("chatgpt") EXCEPT !.created_at = Huge]>>)),
      Upload("chatgpt", "json", ListPayload(<<ChatGPTItem(MetaNode(Huge, A0))>>)),
      Upload("chatgpt", "json", ListPayload(<<ChatGPTItem(SelfLoop)>>)),
      Upload("chatgpt", "json",
             ListPayload(<<ChatGPTItem(ChainMapping(VisibleMsg("a"), HiddenMsg("b")))>>)),
      Upload("claude", "json", ListPayload(<<LinearItem("chat_messages", <<NonMap>>)>>)),
      Upload("claude", "json",
             ListPayload(<<GoodItem("claude"), [GoodItem("claude") EXCEPT !.name = Obj]>>)) }
        \cup { Upload(ad, "json", ListPayload(<<GoodItem(ad), BareItem(ad)>>)) : ad \in Adapters }

\* No adapter is being called.
ParserIdle ==
    /\ adapter = "none"
    /\ payload = OtherPayload
    /\ pc = "none"
    /\ error = "none"
    /\ parsed = <<>>
    /\ idx = 1
    /\ root = None
    /\ stack = <<>>
    /\ order = 0
    /\ messages = <<>>

ImportInit == ServerIdle /\ ParserIdle

\* The request ends: its history row is left with the given status and
\* count, and the locals of the handler are gone.
Respond(status, count, response) ==
    /\ dbHistory' = [dbHistory EXCEPT ![Len(dbHistory)] =
                        [@ EXCEPT !.status = status, !.imported_count = count,
                                  !.response = response]]
    /\ phase' = "idle"
    /\ raw' = "json"
    /\ records' = <<>>
    /\ adapter' = "none"
    /\ payload' = OtherPayload
    /\ pc' = "none"
    /\ error' = "none"
    /\ parsed' = <<>>
    /\ idx' = 1
    /\ root' = None
    /\ stack' = <<>>
    /\ order' = 0
    /\ messages' = <<>>

\* An exception that no except clause of the handler names leaves the
\* handler: the history row stays as it is.
Unhandled == Respond(Last(dbHistory).status, Last(dbHistory).imported_count, "500")

\* main.py lines 240-253 (326-337, 397-408, 468-479): the file is read and
\* the history row is committed with status "processing".
ImportBegin ==
    /\ phase = "idle" /\ Len(dbHistory) < MaxImports
    /\ \E u \in Uploads :
          /\ adapter' = u.adapter
          /\ payload' = u.payload
          /\ raw' = u.raw
          /\ dbHistory' = Append(dbHistory, [source_type |-> u.adapter, status |-> "processing",
                                            imported_count |-> 0, response |-> "none"])
    /\ phase' = "read"
    /\ UNCHANGED <<pc, error, parsed, idx, walkVars, records, dbConversations, dbMessages,
                   deleter, settingsVars>>

\* lines 255-261: json.loads(raw).  JSONDecodeError is answered with status
\* "failure"; bytes that are no UTF-8 raise UnicodeDecodeError, which is
\* not a JSONDecodeError.
ImportLoad ==
    /\ phase = "read"
    /\ CASE raw = "json" ->
                /\ phase' = "parse"
                /\ pc' = "start"
                /\ UNCHANGED <<adapter, payload, error, parsed, idx, walkVars, raw, records,
                               dbHistory>>
         [] raw = "notjson" -> Respond("failure", 0, "400")
         [] raw = "notutf8" -> Unhandled
    /\ UNCHANGED <<dbConversations, dbMessages, deleter, settingsVars>>

\* lines 263-269: the adapter has returned or raised; only ValueError is
\* answered with status "failure".
ImportParsed ==
    /\ phase = "parse" /\ pc \in {"done", "error"}
    /\ IF pc = "done"
       THEN phase' = "persist" /\ UNCHANGED <<parserVars, raw, records, dbHistory>>
       ELSE IF error = "ValueError" THEN Respond("failure", 0, "400")
       ELSE Unhandled
    /\ UNCHANGED <<dbConversations, dbMessages, deleter, settingsVars>>

\* The id that SQLite gives the next row of conversations: the greatest
\* rowid in use and one.
NextId(rows) ==
    IF rows = {} THEN 1
    ELSE (CHOOSE r \in rows : \A q \in rows : q.id <= r.id).id + 1

\* sqlite3 binds None, numbers and strings; a dict raises at db.flush().
Storable(record) == record.title.k # "obj"

\* lines 271-288 and 297-312: every record is added and flushed, its
\* messages are added, and all is committed; an exception on the way rolls
\* everything back and is answered with status "failure".
ImportPersist ==
    /\ phase = "persist"
    /\ IF \A i \in 1..Len(parsed) : Storable(parsed[i])
       THEN /\ dbConversations' = dbConversations \cup
                   { [id |-> NextId(dbConversations) + i - 1, imp |-> Len(dbHistory),
                      message_count |-> parsed[i].message_count] : i \in 1..Len(parsed) }
            /\ dbMessages' = dbMessages \cup
                   UNION { { [conversation_id |-> NextId(dbConversations) + i - 1, n |-> j] :
                             j \in 1..Len(parsed[i].messages) } : i \in 1..Len(parsed) }
            /\ records' = [i \in 1..Len(parsed) |-> NextId(dbConversations) + i - 1]
            /\ phase' = "refresh"
            /\ UNCHANGED <<parserVars, raw, dbHistory>>
       ELSE Respond("failure", 0, "500") /\ UNCHANGED <<dbConversations, dbMessages>>
    /\ UNCHANGED <<deleter, settingsVars>>

\* lines 289-295 and 297-312: db.refresh(convo) reads every added row again
\* and raises for a row that is gone; then the history row is committed
\* with status "success", or, after the exception, with status "failure".
ImportRefresh ==
    /\ phase = "refresh"
    /\ IF \A i \in 1..Len(records) : \E r \in dbConversations : r.id = records[i]
       THEN Respond("success", Len(records), "200")
       ELSE Respond("failure", 0, "500")
    /\ UNCHANGED <<dbConversations, dbMessages, deleter, settingsVars>>

\* A delete that leaves the messages of the conversation where they are.
Cascade_None(id) == {}

\* The rows that db.delete(conversation) removes with the conversation:
\* models.py line 27, cascade="all, delete-orphan".
Cascade(id) == {m \in dbMessages : m.conversation_id = id}

\* delete_conversation, lines 192-195: the conversation is looked up; 404
\* when there is none.
DeleteQuery(d) ==
    /\ deleter[d].pc = "idle"
    /\ \E id \in 1..MaxItems :
          deleter' = [deleter EXCEPT ![d] =
                         IF \E r \in dbConversations : r.id = id
                         THEN [pc |-> "found", id |-> id]
                         ELSE [pc |-> "missing", id |-> id]]
    /\ UNCHANGED <<parserVars, phase, raw, records, dbHistory, dbConversations, dbMessages,
                   settingsVars>>

\* lines 197-198: db.delete and db.commit remove the messages of the
\* conversation and the conversation.
DeleteCommit(d) ==
    /\ deleter[d].pc = "found"
    /\ dbMessages' = dbMessages \ Cascade(deleter[d].id)
    /\ dbConversations' = {r \in dbConversations : r.id # deleter[d].id}
    /\ deleter' = [deleter EXCEPT ![d].pc = "done"]
    /\ UNCHANGED <<parserVars, phase, raw, records, dbHistory, settingsVars>>

ImportNext ==
    \/ Next
    \/ ImportBegin
    \/ ImportLoad
    \/ ImportParsed
    \/ ImportPersist
    \/ ImportRefresh
    \/ \E d \in 1..MaxDeletes : DeleteQuery(d)
    \/ \E d \in 1..MaxDeletes : DeleteCommit(d)

SpecImport == ImportInit /\ [][ImportNext]_vars

(***************************************************************************)
(* The settings endpoints of main.py.  A request is [pc, found, keep]:     *)
(* whether its query found a row, and the keep_separate it writes.         *)
(***************************************************************************)
\* get_import_settings, line 593: db.query(ImportSettings).first().
GetQuery(c) ==
    /\ client[c].pc = "idle"
    /\ client' = [client EXCEPT ![c] = [pc |-> "get", found |-> dbSettings # <<>>,
                                        keep |-> TRUE]]
    /\ UNCHANGED <<parserVars, importVars, dbSettings>>

\* lines 596-608: a row with the defaults is added and committed when the
\* query found none.
GetCreate(c) ==
    /\ client[c].pc = "get"
    /\ dbSettings' = IF client[c].found THEN dbSettings ELSE Append(dbSettings, TRUE)
    /\ client' = [client EXCEPT ![c].pc = "done"]
    /\ UNCHANGED <<parserVars, importVars>>

\* update_import_settings, line 618, for a request body with keep_separate.
PutQuery(c) ==
    /\ client[c].pc = "idle"
    /\ \E keep \in BOOLEAN :
          client' = [client EXCEPT ![c] = [pc |-> "put", found |-> dbSettings # <<>>,
                                          keep |-> keep]]
    /\ UNCHANGED <<parserVars, importVars, dbSettings>>

\* lines 621-634: the row found, or a new row, takes the update and is
\* committed.
PutCommit(c) ==
    /\ client[c].pc = "put"
    /\ dbSettings' = IF client[c].found THEN [dbSettings EXCEPT ![1] = client[c].keep]
                     ELSE Append(dbSettings, client[c].keep)
    /\ client' = [client EXCEPT ![c].pc = "done"]
    /\ UNCHANGED <<parserVars, importVars>>

SettingsNext ==
    \/ \E c \in 1..MaxClients : GetQuery(c)
    \/ \E c \in 1..MaxClients : GetCreate(c)
    \/ \E c \in 1..MaxClients : PutQuery(c)
    \/ \E c \in 1..MaxClients : PutCommit(c)

SettingsInit == ParserIdle /\ ServerIdle

SpecSettings == SettingsInit /\ [][SettingsNext]_vars

(***************************************************************************)
(* Properties of the four adapters.                                        *)
(***************************************************************************)
Finished == pc \in {"done", "error"}

\* The source message list of item i of a bare-sequence payload.
SourceMessages(i) == MessagesData(adapter, payload.items[i])

\* C1: every conversation record an adapter returns has message_count equal
\* to the length of its messages list.
C1_MessageCount ==
    pc = "done" =>
        \A i \in 1..Len(parsed) : parsed[i].message_count = Len(parsed[i].messages)

\* A returned record built from two source messages of which one was dropped.
C1_Witness ==
    /\ pc = "done" /\ adapter \in LinearAdapters /\ payload.kind = "list"
    /\ \E i \in 1..Len(parsed) :
          Len(SourceMessages(i)) = 2 /\ parsed[i].message_count = 1

\* C2: in every returned conversation the order_index values of the
\* messages, in stored order, are 0, 1, ..., len(messages) - 1, whatever was
\* dropped.
C2_ContiguousOrder ==
    pc = "done" =>
        \A i \in 1..Len(parsed) : \A k \in 1..Len(parsed[i].messages) :
            parsed[i].messages[k].order_index = k - 1

\* C3: the content of every returned message is non-empty after trimming.
C3_NonEmptyContent ==
    pc = "done" =>
        \A i \in 1..Len(parsed) : \A k \in 1..Len(parsed[i].messages) :
            Strip(parsed[i].messages[k].content) # <<>>

\* A whitespace-only source message was dropped and a message with leading
\* whitespace kept.
C3_Witness ==
    /\ pc = "done" /\ adapter = "claude" /\ payload.kind = "list"
    /\ \E i \in 1..Len(parsed) :
          /\ Len(SourceMessages(i)) = 2
          /\ SourceMessages(i)[1].f["text"] = StrV(<<" ", NL>>)
          /\ Len(parsed[i].messages) = 1
          /\ parsed[i].messages[1].content = <<" ", "a">>

\* A conversation list can be located in the payload: it is a bare sequence,
\* or a mapping with a list under a key the adapter recognizes, or a mapping
\* the adapter takes as a single item.
ListLocated ==
    \/ payload.kind = "list"
    \/ /\ payload.kind = "dict"
       /\ CASE adapter = "chatgpt" -> payload.fields["conversations"].k = "list"
            [] adapter = "claude" ->
                  \/ payload.uuid
                  \/ payload.fields["conversations"].k = "list"
                  \/ payload.fields["data"].k = "list"
            [] OTHER -> TRUE

\* C4: an adapter raises the format error exactly when no conversation list
\* can be located in the payload; an empty list that is located is no error.
C4_FormatErrorIffNoList ==
    Finished => ((error = "ValueError") <=> ~ListLocated)

\* C5 as claimed: the ChatGPT adapter raises the format error exactly when
\* the payload is neither a bare sequence nor a mapping that has a
\* `conversations` key.
C5_HasKeyAccepted ==
    (adapter = "chatgpt" /\ pc # "start") =>
        ((error = "ValueError") <=>
            ~(\/ payload.kind = "list"
              \/ payload.kind = "dict" /\ payload.fields["conversations"].k # "absent"))

\* C5: the ChatGPT adapter raises the format error exactly when the payload
\* is neither a bare sequence nor a mapping whose `conversations` key holds a
\* value other than null, and then it returns nothing.
C5_ChatGPTShapes ==
    (adapter = "chatgpt" /\ pc # "start") =>
        /\ (error = "ValueError") <=>
              ~(\/ payload.kind = "list"
                \/ /\ payload.kind = "dict"
                   /\ payload.fields["conversations"].k \notin {"absent", "null"})
        /\ error = "ValueError" => (pc = "error" /\ parsed = <<>>)

\* The mapping without a `conversations` key has raised the format error.
C5_Witness ==
    /\ adapter = "chatgpt" /\ pc = "error" /\ error = "ValueError"
    /\ payload.kind = "dict" /\ payload.fields["conversations"].k = "absent"

\* C6: the only error an adapter raises is the format error.
C6_OnlyFormatError == error \in {"none", "ValueError"}

(***************************************************************************)
(* Properties of the ChatGPT tree walk.                                    *)
(***************************************************************************)
\* extract_messages_from_mapping has returned for the item in progress.
WalkDone == adapter = "chatgpt" /\ pc = "walk" /\ stack = <<>> /\ root.some

\* The nodes of mapping m reachable from id r through `children`.
RECURSIVE ReachFrom(_, _, _)
ReachFrom(m, S, n) ==
    IF n = 0 THEN S
    ELSE ReachFrom(m, S \cup {c \in DOMAIN m.node :
                                \E p \in S, i \in 1..MaxEdges + 1 :
                                    i <= Len(m.node[p].children) /\ m.node[p].children[i] = c},
                   n - 1)

Reachable(m, r) == ReachFrom(m, {r} \cap DOMAIN m.node, Cardinality(DOMAIN m.node))

SourceIds(msgs) == [i \in 1..Len(msgs) |-> msgs[i].source_id]

\* The four conditions of the claim, stated on the raw message.
Materializes(message) ==
    /\ message.present
    /\ ~message.hidden
    /\ message.content_type \notin {"user_editable_context", "system_error"}
    /\ message.role \in {"user", "assistant", "tool"}
    /\ Strip(JoinNL([i \in 1..Len(SelectSeq(message.parts, LAMBDA p : p.isStr)) |->
                        SelectSeq(message.parts, LAMBDA p : p.isStr)[i].s])) # <<>>

ExampleChain == ListPayload(<<ChatGPTItem(ChainMapping(VisibleMsg("a"), HiddenMsg("b")))>>)

\* C7: when the walk of a mapping has returned, a node reachable from the
\* start node has its message in the output if and only if the message is
\* not hidden, its content type is neither user_editable_context nor
\* system_error, its role is user, assistant or tool, and its joined text
\* parts are non-empty after trimming; and the chain root -> A (visible
\* user) -> B (hidden assistant) gives exactly the message of A, at
\* order_index 0.
C7_InclusionFilter ==
    WalkDone =>
        /\ \A id \in Reachable(CurMapping, root.id) :
              (\E i \in 1..Len(messages) : messages[i].source_id = id)
                  <=> Materializes(CurMapping.node[id].message)
        /\ payload = ExampleChain =>
              /\ Len(messages) = 1
              /\ messages[1].source_id = "a"
              /\ messages[1].order_index = 0

C7_Witness == WalkDone /\ payload = ExampleChain /\ Len(messages) = 1

\* Every node id is a child of at most one node, at most once, and the start
\* node is nobody's child: the part of m reachable from r is a tree.
IsTree(m, r) ==
    /\ \A p \in DOMAIN m.node : \A i \in 1..Len(m.node[p].children) :
          /\ m.node[p].children[i] # r
          /\ \A q \in DOMAIN m.node : \A j \in 1..Len(m.node[q].children) :
                m.node[p].children[i] = m.node[q].children[j] => (p = q /\ i = j)

\* Depth-first pre-order of the ids below id, children in list order.
RECURSIVE PreOrder(_, _, _)
PreOrder(m, id, fuel) ==
    IF id \notin DOMAIN m.node \/ fuel = 0 THEN <<>>
    ELSE <<id>> \o Concat([i \in 1..Len(m.node[id].children) |->
                              PreOrder(m, m.node[id].children[i], fuel - 1)])

C9_StartNode ==
    /\ (adapter = "chatgpt" /\ pc = "walk") => error = "none"
    /\ (adapter = "chatgpt" /\ pc = "walk" /\ root.some) =>
          /\ root.id = IF FirstNullParent(CurMapping).some
                       THEN FirstNullParent(CurMapping).id
                       ELSE CurMapping.keys[1]
          /\ \A i \in 1..Len(messages) :
                messages[i].source_id \in Reachable(CurMapping, root.id)

\* C10: the walk of every finite mapping terminates: traverse() never
\* exhausts the call stack.
C10_WalkTerminates == error # "RecursionError"

\* C11: the walk visits each node of the mapping at most once: whatever the
\* `children` lists repeat, the message of a node appears at most once in the
\* messages of the conversation.
C11_VisitOnce ==
    adapter = "chatgpt" =>
        \A i, j \in 1..Len(messages) :
            messages[i].source_id = messages[j].source_id => i = j

(***************************************************************************)
(* Properties of the Claude adapter.                                       *)
(***************************************************************************)
\* The roles the claim gives the messages of a chat_messages list: one for
\* every element whose text is not blank, in array order.
ClaimedRoles(msgs) ==
    LET kept == SelectSeq(msgs, LAMBDA m : Strip(m.f["text"].s) # <<>>)
    IN  [i \in 1..Len(kept) |->
            IF kept[i].f["sender"] = StrV(<<"human">>) THEN "user" ELSE "assistant"]

Roles(msgs) == [i \in 1..Len(msgs) |-> msgs[i].role]

\* The top-level object of the example, with a `uuid`.
ClaudeExample(fields) == DictPayload(fields, TRUE, ExampleChat)

\* C12: a top-level mapping with `uuid` or `created_at` is read as exactly
\* one conversation, whatever its `conversations` or `data` key holds; the
\* messages follow the chat_messages array, with role user for sender
\* "human" and assistant otherwise; the example gives one conversation with
\* the roles user, assistant.
C12_ClaudeSingle ==
    (adapter = "claude" /\ pc # "start" /\ payload.kind = "dict" /\ payload.uuid) =>
        /\ error # "ValueError"
        /\ error = "none" =>
              /\ Len(parsed) = 1
              /\ Roles(parsed[1].messages) = ClaimedRoles(payload.self.msgs)
              /\ \A k \in 1..Len(parsed[1].messages) : \A j \in 1..(k - 1) :
                    parsed[1].messages[j].order_index < parsed[1].messages[k].order_index
        /\ payload.self = ExampleChat =>
              /\ error = "none"
              /\ parsed[1].message_count = 2
              /\ Roles(parsed[1].messages) = <<"user", "assistant">>

\* The example object, carrying a `conversations` list as well, was parsed.
C12_Witness ==
    /\ adapter = "claude" /\ pc = "done"
    /\ payload = ClaudeExample([NoFields EXCEPT !["conversations"] = ListOf(<<GoodItem("claude")>>)])
    /\ Len(parsed) = 1 /\ Len(parsed[1].messages) = 2

(***************************************************************************)
(* Properties of the Copilot adapter.                                      *)
(***************************************************************************)
\* C13: a Copilot message whose content is [{"text": "part1"}, {"text":
\* "part2"}], with a `query` and none of role, author, sender and type, is
\* returned with content "part1\npart2" and role user.
C13_PartsAndQuery ==
    (adapter = "copilot" /\ pc = "done" /\ payload.kind = "list") =>
        \A i \in 1..Len(parsed) : \A j \in 1..Len(SourceMessages(i)) :
            SourceMessages(i)[j] = PartsMsg =>
                \E k \in 1..Len(parsed[i].messages) :
                    /\ parsed[i].messages[k].order_index = j - 1
                    /\ parsed[i].messages[k].role = "user"
                    /\ parsed[i].messages[k].content =
                          <<"p", "a", "r", "t", "1", NL, "p", "a", "r", "t", "2">>

\* A conversation whose only message is the one of the example was parsed.
C13_Witness ==
    /\ adapter = "copilot" /\ pc = "done" /\ payload.kind = "list"
    /\ Len(parsed) = 1 /\ SourceMessages(1) = <<PartsMsg>>
    /\ Len(parsed[1].messages) = 1

\* The title the claims derive from a content: the content itself up to 60
\* characters, its first 60 characters and "..." beyond.
ClaimedTitle(content) ==
    IF Len(content) <= 60 THEN content
    ELSE [i \in 1..63 |-> IF i <= 60 THEN content[i] ELSE "."]

\* The user-authored messages with a content, of a source message list.
UserAuthored(msgs) ==
    SelectSeq(msgs, LAMBDA m : /\ m.isMap
                               /\ CopilotDetermineRole(m) = "user"
                               /\ CopilotExtractContent(m).err = "none"
                               /\ CopilotExtractContent(m).v # <<>>)

\* The derivation of the claims: from the first user-authored message, or
\* "Untitled Conversation" without one.
ClaimedDerivation(msgs) ==
    IF UserAuthored(msgs) = <<>> THEN UntitledConversation
    ELSE ClaimedTitle(CopilotExtractContent(UserAuthored(msgs)[1]).v)

\* C14: a Copilot item with no `title` and no `name` gets its title from the
\* content of the first user-authored message of its message list, be the
\* list under `messages`, `exchanges` or `turns`: the content up to 60
\* characters, its first 60 characters followed by "..." beyond.
C14_TitleFromFirstUser ==
    (adapter = "copilot" /\ pc = "done" /\ payload.kind = "list") =>
        \A i \in 1..Len(parsed) :
            ( /\ payload.items[i].title.k = "absent"
              /\ payload.items[i].name.k = "absent"
              /\ UserAuthored(SourceMessages(i)) # <<>> ) =>
                parsed[i].title = S0(ClaimedDerivation(SourceMessages(i)))

\* The title the claim has resolved at initial extraction.
ClaimedInitialTitle(item, msgs) ==
    IF Truthy(item.title) THEN item.title
    ELSE IF Truthy(item.name) THEN item.name
    ELSE S0(ClaimedDerivation(msgs))

\* C15: a Copilot item with no `title`, no `name` and no user-authored
\* message is titled "Untitled Conversation"; when the title resolved first
\* is "Untitled", the title of the record is what the first-pass derivation
\* gives for the same messages.
C15_SecondPass ==
    (adapter = "copilot" /\ pc = "done" /\ payload.kind = "list") =>
        \A i \in 1..Len(parsed) :
            /\ ( /\ payload.items[i].title.k = "absent"
                 /\ payload.items[i].name.k = "absent"
                 /\ UserAuthored(SourceMessages(i)) = <<>> ) =>
                   parsed[i].title = S0(UntitledConversation)
            /\ ClaimedInitialTitle(payload.items[i], SourceMessages(i)) = S0(Untitled) =>
                   parsed[i].title = S0(ClaimedDerivation(SourceMessages(i)))

(***************************************************************************)
(* Properties of the timestamp normalization.                              *)
(***************************************************************************)
\* The instant the claim gives a positive number: the number divided by 1000
\* when it is greater than 1e12, the number itself otherwise, taken as epoch
\* seconds; absent beyond the last second of the year 9999.
ClaimedInstant(n) ==
    LET millis == LimbLess(E12, n)
        secs == IF millis THEN Front(n) ELSE n
    IN  IF LimbLess(MaxSeconds, secs) THEN NoInstant
        ELSE FromEpoch(FALSE, secs, IF millis THEN Last(n) ELSE 0)

\* C16: every adapter reads a number as epoch seconds unless it is greater
\* than 1e12, and then as epoch milliseconds; 1700000000000 gives the instant
\* of 1700000000, and 1e12 itself is read as seconds.
C16_MillisHeuristic ==
    (pc = "done" /\ payload.kind = "list") =>
        \A i \in 1..Len(parsed) :
            LET t == payload.items[i].created_at IN
            (t.k = "num" /\ ~t.neg /\ t.limbs # <<>>) =>
                /\ parsed[i].created_at = ClaimedInstant(t.limbs)
                /\ t.limbs = <<1, 700, 0, 0, 0>> =>
                      parsed[i].created_at = FromEpoch(FALSE, <<1, 700, 0, 0>>, 0)

\* The payload is one conversation that carries a timestamp.
TimestampCase ==
    /\ payload.kind = "list" /\ Len(payload.items) = 1
    /\ payload.items[1].created_at.k # "absent"

\* C17: the timestamp handling of an adapter never raises: whatever the
\* timestamp is, the conversation is returned with an instant or with no
\* created_at, and a timestamp that cannot be parsed gives no created_at.
C17_NeverRaises ==
    TimestampCase =>
        /\ error = "none"
        /\ pc = "done" =>
              /\ parsed[1].created_at.k \in {"none", "epoch", "text"}
              /\ payload.items[1].created_at \in {NullTs, OtherTs, StrTs(<<"garbage">>)} =>
                    parsed[1].created_at = NoInstant

\* C18: every instant the timestamp normalization returns is naive, whatever
\* offset the string carries.
C18_Naive ==
    pc = "done" => \A i \in 1..Len(parsed) : parsed[i].created_at.tz = ""

(***************************************************************************)
(* Properties of the content extractors of gemini.py and copilot.py.       *)
(***************************************************************************)
\* The candidate keys of the content, in the order of the source.
Candidates(ad) ==
    IF ad = "gemini" THEN <<"text", "content", "message", "prompt", "response">>
    ELSE <<"content", "text", "message", "response", "request", "query">>

\* The value of the first candidate key that is present and not null.
RECURSIVE FirstPresent(_, _)
FirstPresent(msg, keys) ==
    IF keys = <<>> THEN StrV(<<>>)
    ELSE IF msg.f[keys[1]].k \notin {"absent", "null"} THEN msg.f[keys[1]]
    ELSE FirstPresent(msg, Tail(keys))

\* Message number j of item i is returned with this content, or is dropped
\* when the content is blank.
ReturnedAs(i, j, content) ==
    IF Strip(content) = <<>>
    THEN \A k \in 1..Len(parsed[i].messages) : parsed[i].messages[k].order_index # j - 1
    ELSE \E k \in 1..Len(parsed[i].messages) :
            /\ parsed[i].messages[k].order_index = j - 1
            /\ parsed[i].messages[k].content = content

\* C19: the content is the value of the first candidate key that is present
\* and not null: an empty string under an earlier key is the content (and
\* the message is dropped), whatever the later keys hold.
C19_FirstPresent ==
    (adapter \in {"gemini", "copilot"} /\ pc = "done" /\ payload.kind = "list") =>
        \A i \in 1..Len(parsed) : \A j \in 1..Len(SourceMessages(i)) :
            LET v == FirstPresent(SourceMessages(i)[j], Candidates(adapter)) IN
            v.k = "str" => ReturnedAs(i, j, v.s)

\* The text the claim extracts from an element of a list or from an object:
\* the first of text, value and content that is not empty.
ElementText(e) == PyStr(OrChain(<<e.text, e.value>>, S0(<<>>)))

NestedText(v) ==
    IF v.k = "list"
    THEN LET used == SelectSeq(v.elems, LAMBDA e : e.k \in {"str", "dict"})
         IN  JoinNL([n \in 1..Len(used) |->
                        IF used[n].k = "str" THEN used[n].s ELSE ElementText(used[n])])
    ELSE PyStr(OrChain(<<v.text, v.value, v.content>>,
                       IF v.parts.k = "list" /\ v.parts.elems # <<>>
                       THEN v.parts.elems[1] ELSE S0(<<>>)))

\* C20: a content that is a list gives the newline-join of its strings and
\* of the extracted texts of its objects; a content that is an object gives
\* the first of its text, value, content and first element of parts; for
\* the Gemini and for the Copilot extractor.
C20_NestedContent ==
    (adapter \in {"gemini", "copilot"} /\ pc = "done" /\ payload.kind = "list") =>
        \A i \in 1..Len(parsed) : \A j \in 1..Len(SourceMessages(i)) :
            LET v == OrChain([n \in 1..Len(Candidates(adapter)) |->
                                 SourceMessages(i)[j].f[Candidates(adapter)[n]]], StrV(<<>>))
            IN  v.k \in {"list", "dict"} => ReturnedAs(i, j, NestedText(v))

(***************************************************************************)
(* Properties of the role classification.                                  *)
(***************************************************************************)
\* The role fields of a source, in the order they are consulted.
RoleFields(ad) ==
    IF ad = "gemini" THEN <<"role", "author", "sender">>
    ELSE <<"role", "author", "sender", "type">>

\* The fields whose presence marks a user message.
FallbackFields(ad) ==
    IF ad = "gemini" THEN {"user_input", "prompt"} ELSE {"request", "query", "prompt"}

UserWords(ad) ==
    IF ad = "gemini" THEN {<<"user">>, <<"human">>}
    ELSE {<<"user">>, <<"human">>, <<"question">>}

AssistantWords(ad) ==
    IF ad = "gemini" THEN {<<"model">>, <<"assistant">>, <<"ai">>, <<"gemini">>, <<"bard">>}
    ELSE {<<"assistant">>, <<"copilot">>, <<"ai">>, <<"answer">>, <<"response">>}

SystemWords(ad) == IF ad = "gemini" THEN {} ELSE {<<"system">>, <<"context">>}

\* A field that is present and not empty.
NonEmpty(v) == v.k \notin {"absent", "null"} /\ v # StrV(<<>>) /\ v # NumV(<<"0">>)

\* The positions of the non-empty role fields of a message.
RolePositions(ad, msg) ==
    {i \in 1..Len(RoleFields(ad)) : NonEmpty(msg.f[RoleFields(ad)[i]])}

\* The first non-empty role field, in lower case; <<>> when there is none.
RoleWord(ad, msg) ==
    IF RolePositions(ad, msg) = {} THEN <<>>
    ELSE Lower(PyStr(msg.f[RoleFields(ad)[CHOOSE i \in RolePositions(ad, msg) :
                                             \A j \in RolePositions(ad, msg) : i <= j]]))

ClaimedRole(ad, msg) ==
    CASE RoleWord(ad, msg) \in UserWords(ad) -> "user"
      [] RoleWord(ad, msg) \in AssistantWords(ad) -> "assistant"
      [] RoleWord(ad, msg) \in SystemWords(ad) -> "system"
      [] OTHER -> IF \E x \in FallbackFields(ad) : NonEmpty(msg.f[x]) THEN "user"
                  ELSE "assistant"

Unreadable(t) == t.k \in {"absent", "null"} \/ t = StrTs(<<"garbage">>)

\* C22: in what an adapter returns, a message whose own timestamp is absent
\* or unparseable has the created_at of its conversation, and a message has
\* no created_at only when its conversation has none.
C22_CreatedFallback ==
    (pc = "done" /\ payload.kind = "list") =>
        \A i \in 1..Len(parsed) : \A j \in 1..Len(parsed[i].messages) :
            /\ parsed[i].messages[j].created_at.k = "none" => parsed[i].created_at.k = "none"
            /\ (/\ adapter \in LinearAdapters
                /\ Unreadable(SourceMessages(i)[parsed[i].messages[j].order_index + 1].created_at))
                   => parsed[i].messages[j].created_at = parsed[i].created_at

\* A `model` value that names a model.
Names(v) == v.k = "str" /\ v.s # <<>>

\* The first of the values that names a model, else the source's constant.
RECURSIVE ModelOr(_, _)
ModelOr(vs, default) ==
    IF vs = <<>> THEN S0(<<default>>)
    ELSE IF Names(vs[1]) THEN vs[1]
    ELSE ModelOr(Tail(vs), default)

ClaimedModel(ad, item, msg) ==
    CASE ad = "claude" -> ModelOr(<<item.model>>, "claude")
      [] ad = "gemini" -> ModelOr(<<msg.model, item.model>>, "gemini")
      [] ad = "copilot" -> ModelOr(<<msg.model>>, "copilot")

\* C23: a Claude message carries its conversation's model or "claude", a
\* Gemini message its own or its conversation's model or "gemini", a Copilot
\* message its own model or "copilot", and a ChatGPT message a model that is
\* not null.
C23_ModelDefault ==
    (pc = "done" /\ payload.kind = "list") =>
        \A i \in 1..Len(parsed) : \A j \in 1..Len(parsed[i].messages) :
            IF adapter = "chatgpt" THEN parsed[i].messages[j].model.k # "null"
            ELSE parsed[i].messages[j].model
                     = ClaimedModel(adapter, payload.items[i],
                                    SourceMessages(i)[parsed[i].messages[j].order_index + 1])

(***************************************************************************)
(* Properties of the list of records.                                      *)
(***************************************************************************)
\* The conversation list that the adapter has located in the payload.
Located ==
    IF adapter = "chatgpt" THEN Conversations
    ELSE LinearConversations(adapter, payload).items

\* What the adapter returns for the one item alone.
Alone(item) == ParseLinear(adapter, ListPayload(<<item>>)).v

\* C24: a call that returns gives one record per item of the located list,
\* in the order of the list and with the adapter's name as source; the
\* record of an item is the record that the item gives alone, whatever the
\* other items are (for ChatGPT: equal items give equal records), and an
\* item without materialized messages gives a record with no messages and
\* message_count 0.
C24_OneRecordPerItem ==
    pc = "done" =>
        /\ Len(parsed) = Len(Located)
        /\ \A i \in 1..Len(parsed) :
               /\ parsed[i].source = adapter
               /\ parsed[i].messages = <<>> => parsed[i].message_count = 0
               /\ adapter \in LinearAdapters => <<parsed[i]>> = Alone(Located[i])
               /\ adapter = "chatgpt" =>
                      /\ Located[i].mapping.keys = <<>> => parsed[i].messages = <<>>
                      /\ \A k \in 1..Len(parsed) :
                             Located[i] = Located[k] => parsed[i] = parsed[k]

\* Two items: every message of the first is dropped, the second keeps one.
C24_Witness ==
    /\ pc = "done" /\ adapter \in LinearAdapters /\ payload.kind = "list"
    /\ Len(parsed) = 2
    /\ Len(SourceMessages(1)) >= 1 /\ parsed[1].messages = <<>>
    /\ Len(parsed[2].messages) = 1

(***************************************************************************)
(* Properties of the import, delete and settings endpoints.                *)
(***************************************************************************)
\* C25: the history row of every import request that has ended has status
\* "success" or "failure"; none is left in "processing".
C25_NoProcessingLeft ==
    \A n \in 1..Len(dbHistory) :
        dbHistory[n].response # "none" => dbHistory[n].status \in {"success", "failure"}

\* The conversations that request number n has stored.
StoredBy(n, rows) == {r \in rows : r.imp = n}

\* C26: in the step that ends an import request, a request answered with
\* 200 leaves all its parsed conversations and their messages stored, its
\* history row with status "success" and imported_count the number of
\* conversations stored; any other request leaves none of its conversations
\* or messages stored, and its history row with status "failure" and
\* imported_count 0.
C26_AllOrNothing ==
    [][ (phase # "idle" /\ phase' = "idle") =>
            LET n == Len(dbHistory)
                mine == StoredBy(n, dbConversations')
            IN  IF dbHistory'[n].response = "200"
                THEN /\ dbHistory'[n].status = "success"
                     /\ Cardinality(mine) = Len(parsed)
                     /\ dbHistory'[n].imported_count = Cardinality(mine)
                     /\ \A i \in 1..Len(parsed) :
                            Cardinality({m \in dbMessages' : m.conversation_id = records[i]})
                                = Len(parsed[i].messages)
                ELSE /\ mine = {}
                     /\ \A m \in dbMessages' : \E r \in dbConversations' :
                                                   r.id = m.conversation_id
                     /\ dbHistory'[n].status = "failure"
                     /\ dbHistory'[n].imported_count = 0 ]_vars

C28_OneSettingsRow == Len(dbSettings) <= 1

====
